---- MODULE Spec2Model ----
(***************************************************************************)
(* HCAS store engine: the metadata rows (objects, object_deps, labels,     *)
(* temp_objects), the files under data/ and temp/, the object Writer       *)
(* (hcas/object_writer.go), the Session label operations (hcas/session.go) *)
(* and the garbage collector (GarbageCollect, collectObjects,              *)
(* collectTempObjects).                                                    *)
(*                                                                         *)
(* The metadata store is SQLite: `db` is the committed state, `tx` is the  *)
(* one open exclusive write transaction (BEGIN IMMEDIATE .. COMMIT) with   *)
(* its working copy of the rows.  A crash or a ROLLBACK drops the working  *)
(* copy; file operations take effect at once and survive both.             *)
(*                                                                         *)
(* The hcasfs package on top of it: the directory object codec (dirBuilder *)
(* Insert and Build, DirEntry Encode and DecodeStream, LookupChild) and    *)
(* the inode numbering of the FUSE mount (handleLookupRequest).            *)
(***************************************************************************)
EXTENDS Integers, Sequences, FiniteSets, TLC

\* ---------------------------------------------------------------- bounds
MaxWriters == 2
MaxTime    == 2
MaxFaults  == 1
MaxCap     == 1
MaxBudget  == 1
MaxLen     == 2
MaxObjects == 3

\* ------------------------------------------------------ program constants
maxWorkPerIteration == 1000
defaultObjectLease  == 1

Writers   == 1 .. MaxWriters
Bytes     == {1}
NoBytes   == <<-1>>            \* a nil []byte / no file at that path
NoTx      == [owner |-> <<"none", 0>>]
LabelKeys == {<<"ns", "l1">>}

\* ------------------------------------------------------------------ names
\* A Name is the SHA-256 of (dependency count, sorted dependency names,
\* content).  The hash is modelled as the injective tuple of what was fed to
\* it: <<count, deps fed, content bytes fed>>.
NameOfHash(ndeps, deps, content) == <<ndeps, deps, content>>

\* A name no writer of the model produces (its content byte is not in Bytes).
MissingName == NameOfHash(0, <<>>, <<9>>)

\* A nil *Name
NoName == NameOfHash(0, <<>>, NoBytes)

RECURSIVE SeqLess(_, _)
SeqLess(a, b) ==
  IF a = <<>> THEN b # <<>>
  ELSE IF b = <<>> THEN FALSE
  ELSE IF Head(a) # Head(b) THEN Head(a) < Head(b)
  ELSE SeqLess(Tail(a), Tail(b))

\* Byte order of two names (dep.Name() < dep.Name()): a fixed total order.
RECURSIVE NameLess(_, _)
RECURSIVE NameSeqLess(_, _)
NameLess(n, m) ==
  IF n[3] # m[3] THEN SeqLess(n[3], m[3])
  ELSE IF n[1] # m[1] THEN n[1] < m[1]
  ELSE NameSeqLess(n[2], m[2])
NameSeqLess(a, b) ==
  IF a = <<>> THEN b # <<>>
  ELSE IF b = <<>> THEN FALSE
  ELSE IF Head(a) # Head(b) THEN NameLess(Head(a), Head(b))
  ELSE NameSeqLess(Tail(a), Tail(b))

RECURSIVE InsertSorted(_, _)
InsertSorted(x, s) ==
  IF s = <<>> THEN <<x>>
  ELSE IF NameLess(x, Head(s)) THEN <<x>> \o s
  ELSE <<Head(s)>> \o InsertSorted(x, Tail(s))

\* sort.Slice(depsCopy, less by Name())
RECURSIVE SortDeps(_)
SortDeps(s) == IF s = <<>> THEN <<>> ELSE InsertSorted(Head(s), SortDeps(Tail(s)))

\* ------------------------------------------------------------------ state
VARIABLES
  now,        \* wall clock, in lease units
  db,         \* committed rows of metadata.sqlite
  tx,         \* the open exclusive write transaction, or NoTx
  dataFiles,  \* data/<aa>/<bb..>: Name -> bytes of the file at that path
  tempFiles,  \* temp/tmp-*: temp file id -> bytes written to it
  writers,    \* hcasObjectWriter instances
  sessions,   \* hcasSession handles: "open" or "closed"
  gc,         \* the GarbageCollect call in progress
  faults,     \* I/O failures and crashes the environment may still inject
  builder,    \* a dirBuilder (hcasfs): DirEntries, DepNames, TotalTreeSize
  blob,       \* the bytes Build or Encode returned, or NoBytes
  found,      \* what the last LookupChild call returned
  entry,      \* a DirEntry in memory
  decoded,    \* what DecodeStream made of `blob`
  tree,       \* the directory tree ImportPath was given
  objects,    \* the objects the import created: name and data of each
  inodeMap,   \* HcasMount.inodeMap: node id -> InodeReference
  paths,      \* history: node id -> the paths of the tree resolved to it
  archive,    \* the headers of the archive ImportTar is given
  imported,   \* what ImportTar made of it, or NoImport
  handle,     \* a FileHandleDir: nodeFile, pos, inodeId, dirEntryCount, currentSeek
  listing,    \* history: the Data of the Read responses the reader was given
  kernel,     \* the kernel: node id -> Lookup responses received minus forgets sent
  pending,    \* goroutine -> the trackInode call its Lookup has still to make
  inodeLock,  \* HcasMount.inodeLock: "free", or "held" by a handler that returned
  reply,      \* the last response written to the kernel, for Access with its request
  readers,    \* goroutine -> the Read it is in: its request, its place, its buffer
  before,     \* the handle as it was when these Reads arrived
  batches,    \* how many times Reads have arrived together
  handleMap,  \* HcasMount.handleMap: handle id -> FileHandle
  lastHandleID, \* HcasMount.lastHandleID
  opening,    \* goroutine -> the handle its Open has created and not yet registered
  openFiles,  \* how many *os.File the server has open
  answers,    \* the request handled last: its kind and how many replies it was given
  issued,     \* history: the handle ids Open has returned, in the order of openHandle
  hashing     \* the dependencies and content last hashed, the bytes given to the hash and the name

\* The state of a FUSE mount of an imported tree.
mountVars == <<tree, objects, inodeMap, paths>>

\* The state of a tar import.
tarVars == <<archive, imported>>

\* The state of an open directory and of the reader going through it.
readVars == <<handle, listing>>

\* The state of the server's goroutines and of the kernel it answers.
serveVars == <<kernel, pending, inodeLock, reply>>

\* Read requests being served on one directory handle at the same time
raceVars == <<readers, before, batches>>

\* The handle table of the mount, its open files and the requests answered
handleVars == <<handleMap, lastHandleID, opening, openFiles, answers, issued>>

\* The blob name computed last
hashVars == <<hashing>>

\* The state of the hcasfs package: directory objects and their codec.
fsVars == <<builder, blob, found, entry, decoded, mountVars, tarVars, readVars, serveVars, raceVars, handleVars, hashVars>>

\* The state of the store and of the processes working on it.
storeVars == <<now, db, tx, dataFiles, tempFiles, writers, sessions, gc, faults>>

vars == <<storeVars, fsVars>>

\* One session per writer slot: writer w is a stream of session w.
Sessions == Writers
SessionOf(w) == w

\* time.Now() + lease
calculateLeaseTime(lease) == now + lease

Max(a, b) == IF a >= b THEN a ELSE b

\* ------------------------------------------------------------ db helpers
\* Variant of ObjectsNamed: the lookup by name never finds a row.
ObjectsNamedNone(d, name) == {}

\* SELECT id FROM objects WHERE name = ?
ObjectsNamed(d, name) == {o \in d.objects : o.name = name}
ObjectNames(d) == {o.name : o \in d.objects}

\* UPDATE objects SET ref_count = ref_count + delta WHERE id = ?
AddRef(objs, id, delta) ==
  {IF o.id = id THEN [o EXCEPT !.ref_count = @ + delta] ELSE o : o \in objs}

EmptyDb ==
  [objects       |-> {},
   object_deps   |-> {},
   labels        |-> [k \in LabelKeys |-> 0],
   temp_objects  |-> {},
   lastObjectId  |-> 0,
   lastDepId     |-> 0,
   lastTempObjId |-> 0,
   temp_tables   |-> {}]

\* INSERT INTO temp_objects (name) VALUES (?)
InsertTempObject(d, name) ==
  [d EXCEPT !.temp_objects = @ \cup {[id |-> d.lastTempObjId + 1, name |-> name]},
            !.lastTempObjId = @ + 1]

\* DELETE FROM temp_objects WHERE id = ?
DeleteTempObject(d, id) ==
  [d EXCEPT !.temp_objects = {t \in @ : t.id # id}]

\* Variant of ExtendLease: the UPDATE also takes a reference.
ExtendLeaseAndRef(d, name, leaseTime) ==
  [d EXCEPT !.objects =
     {IF o.name = name
        THEN [o EXCEPT !.lease_time = Max(leaseTime, @ + 1), !.ref_count = @ + 1]
        ELSE o
        : o \in @}]

\* UPDATE objects SET lease_time = MAX(?, lease_time + 1) WHERE name = ?
ExtendLease(d, name, leaseTime) ==
  [d EXCEPT !.objects =
     {IF o.name = name THEN [o EXCEPT !.lease_time = Max(leaseTime, @ + 1)] ELSE o
        : o \in @}]

\* INSERT INTO objects (name, ref_count, lease_time) VALUES (?, 1, ?)
InsertObject(d, name, leaseTime) ==
  [d EXCEPT !.objects = @ \cup {[id |-> d.lastObjectId + 1, name |-> name,
                                 ref_count |-> 1, lease_time |-> leaseTime]},
            !.lastObjectId = @ + 1]

\* INSERT INTO object_deps (parent_id, child_id) VALUES (?, ?);
\* UPDATE objects SET ref_count = ref_count + 1 WHERE id = ?
InsertDep(d, parentId, childId) ==
  [d EXCEPT !.object_deps = @ \cup {[id |-> d.lastDepId + 1, parent_id |-> parentId,
                                     child_id |-> childId]},
            !.lastDepId = @ + 1,
            !.objects = AddRef(@, childId, 1)]

\* The dependency loop of Close: resolve each name in order, add its edge.
\* Yields [ok |-> FALSE] at the first name that has no objects row.
RECURSIVE CreateDeps(_, _, _)
CreateDeps(d, parentId, deps) ==
  IF deps = <<>> THEN [ok |-> TRUE, db |-> d]
  ELSE IF ObjectsNamed(d, Head(deps)) = {} THEN [ok |-> FALSE, db |-> d]
  ELSE CreateDeps(InsertDep(d, parentId,
                            (CHOOSE o \in ObjectsNamed(d, Head(deps)) : TRUE).id),
                  parentId, Tail(deps))

\* ------------------------------------------------------------ file helpers
RemoveKey(f, k) == [x \in DOMAIN f \ {k} |-> f[x]]
PutKey(f, k, v) == [x \in DOMAIN f \cup {k} |-> IF x = k THEN v ELSE f[x]]
Prefix(s, n) == SubSeq(s, 1, n)

\* ----------------------------------------------------------------- Writer
IdleWriter ==
  [pc |-> "idle", session |-> 0, hsh |-> [ndeps |-> 0, deps |-> <<>>, bytes |-> <<>>],
   deps |-> <<>>, buffer |-> NoBytes, cap |-> 0, file |-> FALSE, sum |-> NoName,
   tempObjectId |-> 0, fast |-> FALSE, renameErr |-> FALSE, name |-> NoName,
   err |-> FALSE]

\* A writer the caller is through with: Close returned (name set on success) or
\* a call returned an error.  Only what a caller can still observe is kept.
Finished(wr, pc, name) ==
  [IdleWriter EXCEPT !.pc = pc, !.session = wr.session, !.sum = wr.sum,
                     !.name = name, !.err = (pc # "done")]

\* hsh.Sum(nil): the name of what the hash has been fed
HashSum(hsh) == NameOfHash(hsh.ndeps, hsh.deps, hsh.bytes)

\* Names a caller can know of: published objects, and one that does not exist.
KnownNames == ObjectNames(db) \cup {MissingName}
DepLists == {<<>>} \cup {<<a>> : a \in KnownNames}
              \cup {<<a, b>> : a \in ObjectNames(db), b \in ObjectNames(db)}

\* createObjectStreamWithBuffer(session, buffer, deps...): CreateObject passes
\* the caller's data as the buffer, StreamObject an empty buffer of capacity
\* objectWriterBufferSize; the capacity is an input here.
createObjectStreamWithBuffer(w, s, buffer, cap, deps) ==
  /\ writers[w].pc = "idle"
  /\ sessions[s] = "open"
  /\ writers' = [writers EXCEPT ![w] =
       [IdleWriter EXCEPT
          !.pc = "open", !.session = s,
          !.deps = SortDeps(deps),
          !.hsh = [ndeps |-> Len(deps), deps |-> SortDeps(deps), bytes |-> buffer],
          !.buffer = buffer, !.cap = cap]]
  /\ UNCHANGED <<fsVars, now, db, tx, dataFiles, tempFiles, sessions, gc, faults>>

\* makeTempFile: outcome <<"ok", 0>>; <<"create", 0>> (os.CreateTemp or lockFile
\* fails, no file is kept); <<"drain", k>> (the file exists, k bytes of the buffer reached it,
\* then a write failed).  Yields the writer and temp/ afterwards.
makeTempFile(wr, w, files, outcome) ==
  IF outcome[1] = "create"
  THEN [ok |-> FALSE, wr |-> wr, files |-> files]
  ELSE IF outcome[1] = "ok"
  THEN [ok |-> TRUE,
        wr |-> [wr EXCEPT !.file = TRUE, !.buffer = NoBytes],
        files |-> [files EXCEPT ![w] = wr.buffer]]
  ELSE [ok |-> FALSE,
        wr |-> [wr EXCEPT !.file = TRUE, !.buffer = NoBytes],
        files |-> [files EXCEPT ![w] = Prefix(wr.buffer, outcome[2])]]

MakeTempOutcomes(wr) ==
  {<<"ok", 0>>} \cup
  (IF faults > 0
     THEN {<<"create", 0>>} \cup {<<"drain", k>> : k \in 0 .. (Len(wr.buffer) - 1)}
     ELSE {})

IsFault(outcome) == outcome[1] \notin {"ok", "none"}

\* ow.file.Write(p); ow.hsh.Write(p[:n]).  n is the count the file took; on a
\* nil file (makeTempFile failed to create one) os.File.Write returns 0 and
\* ErrInvalid.
FileWrite(wr, w, files, p, n) ==
  IF ~wr.file
  THEN [wr |-> [wr EXCEPT !.err = TRUE], files |-> files]
  ELSE [wr |-> [wr EXCEPT !.hsh.bytes = @ \o Prefix(p, n),
                          !.err = (n < Len(p))],
        files |-> [files EXCEPT ![w] = @ \o Prefix(p, n)]]

\* Write(p).  A caller that is returned an error stops using the writer.
Write(w, p) ==
  LET wr == writers[w] IN
  /\ wr.pc = "open"
  /\ Len(wr.hsh.bytes) + Len(p) <= MaxLen
  /\ IF wr.buffer # NoBytes /\ Len(wr.buffer) + Len(p) <= wr.cap
     THEN \* Happy path, data fits entirely in buffer
          /\ writers' = [writers EXCEPT ![w].buffer = @ \o p,
                                        ![w].hsh.bytes = @ \o p]
          /\ UNCHANGED <<tempFiles, faults>>
     ELSE \E mk \in (IF wr.buffer # NoBytes THEN MakeTempOutcomes(wr) ELSE {<<"none", 0>>}) :
          \E n \in (IF faults > 0 /\ ~IsFault(mk)
                      THEN 0 .. Len(p) ELSE {Len(p)}) :
            LET \* Buffer full, create backing temp file; its error is dropped
                m == IF mk[1] = "none"
                       THEN [wr |-> wr, files |-> tempFiles]
                       ELSE makeTempFile(wr, w, tempFiles, mk)
                r == FileWrite(m.wr, w, m.files, p, n)
            IN /\ writers' = [writers EXCEPT ![w] =
                    IF r.wr.err THEN Finished(r.wr, "failed", NoName) ELSE r.wr]
               /\ tempFiles' = r.files
               /\ faults' = IF IsFault(mk) \/ (m.wr.file /\ n < Len(p))
                              THEN faults - 1 ELSE faults
  /\ UNCHANGED <<fsVars, now, db, tx, dataFiles, sessions, gc>>

\* Close, up to the BEGIN IMMEDIATE: the name, the temp_objects row (its own
\* implicit transaction), then Mkdir of the data directory and Sync.
CloseInsertTemp(w) ==
  LET wr == writers[w] IN
  /\ wr.pc = "open"
  /\ tx = NoTx
  /\ db' = InsertTempObject(db, HashSum(wr.hsh))
  /\ writers' = [writers EXCEPT ![w].pc = "temp",
                                ![w].sum = HashSum(wr.hsh),
                                ![w].tempObjectId = db.lastTempObjId + 1]
  /\ UNCHANGED <<fsVars, now, tx, dataFiles, tempFiles, sessions, gc, faults>>

\* os.Mkdir or ow.file.Sync() fails before the transaction: Close returns the
\* error, the temp_objects row stays.
CloseSyncFail(w) ==
  /\ writers[w].pc = "temp"
  /\ faults > 0
  /\ faults' = faults - 1
  /\ writers' = [writers EXCEPT ![w] = Finished(@, "failed", NoName)]
  /\ UNCHANGED <<fsVars, now, db, tx, dataFiles, tempFiles, sessions, gc>>

RenameOutcomes == {"ok"} \cup (IF faults > 0 THEN {"enoent", "other"} ELSE {})

\* if err != nil && os.IsNotExist(err) { ROLLBACK; return err }
RenameRollsBack(outcome) == outcome = "enoent"

\* Close from BEGIN IMMEDIATE to just before COMMIT: drop the temp_objects row,
\* try to extend the lease of an existing object (the fast path), else insert
\* the object and its dependency edges, make the temp file if the buffer never
\* spilled, and rename it to its data/ path.  Every ROLLBACK exit ends the step
\* with no transaction open.
CloseBegin(w) ==
  LET wr        == writers[w]
      leaseTime == calculateLeaseTime(defaultObjectLease)
      d1        == DeleteTempObject(db, wr.tempObjectId)
      rollback(wr2, files, nfaults) ==
        /\ tx' = NoTx
        /\ writers' = [writers EXCEPT ![w] = Finished(wr2, "failed", NoName)]
        /\ tempFiles' = files
        /\ faults' = faults - nfaults
        /\ UNCHANGED dataFiles
  IN
  /\ wr.pc = "temp"
  /\ tx = NoTx
  /\ IF ObjectsNamed(d1, wr.sum) # {}
     THEN \* Handle case where object already exists
          /\ tx' = [owner |-> <<"writer", w>>, db |-> ExtendLease(d1, wr.sum, leaseTime)]
          /\ writers' = [writers EXCEPT ![w].pc = "commit", ![w].fast = TRUE]
          /\ UNCHANGED <<dataFiles, tempFiles, faults>>
     ELSE LET d2 == InsertObject(d1, wr.sum, leaseTime)
              r  == CreateDeps(d2, d1.lastObjectId + 1, wr.deps)
          IN IF ~r.ok
             THEN rollback(wr, tempFiles, 0)
             ELSE \E mk \in (IF wr.file THEN {<<"none", 0>>} ELSE MakeTempOutcomes(wr)) :
                  LET m == IF mk[1] = "none"
                             THEN [ok |-> TRUE, wr |-> wr, files |-> tempFiles]
                             ELSE makeTempFile(wr, w, tempFiles, mk)
                  IN IF ~m.ok
                     THEN rollback(m.wr, m.files, 1)
                     ELSE \E ro \in RenameOutcomes :
                          IF RenameRollsBack(ro)
                          THEN rollback(m.wr, m.files, 1)
                          ELSE /\ tx' = [owner |-> <<"writer", w>>, db |-> r.db]
                               /\ writers' = [writers EXCEPT ![w] =
                                    [m.wr EXCEPT !.pc = "commit",
                                                 !.renameErr = (ro # "ok")]]
                               /\ IF ro = "ok"
                                  THEN /\ dataFiles' = PutKey(dataFiles, wr.sum, m.files[w])
                                       /\ tempFiles' = [m.files EXCEPT ![w] = NoBytes]
                                       /\ UNCHANGED faults
                                  ELSE /\ tempFiles' = m.files
                                       /\ faults' = faults - 1
                                       /\ UNCHANGED dataFiles
  /\ UNCHANGED <<fsVars, now, db, sessions, gc>>

\* db.Exec("COMMIT") and the return: the fast path sets the name; the slow path
\* returns the error left by a failed rename, else sets the name.
CloseCommit(w) ==
  LET wr == writers[w] IN
  /\ wr.pc = "commit"
  /\ tx.owner = <<"writer", w>>
  /\ db' = [tx.db EXCEPT !.temp_tables = db.temp_tables]
  /\ tx' = NoTx
  /\ writers' = [writers EXCEPT ![w] =
       IF wr.renameErr
       THEN Finished(wr, "failed", NoName)
       ELSE Finished(wr, "done", wr.sum)]
  /\ UNCHANGED <<fsVars, now, dataFiles, tempFiles, sessions, gc, faults>>

\* ---------------------------------------------------------------- Session
\* func (s *hcasSession) Close() error { return nil }
SessionClose(s) ==
  /\ sessions[s] = "open"
  /\ sessions' = [sessions EXCEPT ![s] = "closed"]
  /\ UNCHANGED <<fsVars, now, db, tx, dataFiles, tempFiles, writers, gc, faults>>

\* Variant of UnrefLabelTarget: the WHERE EXISTS left out, every row decremented.
UnrefEveryObject(d, key) == {[o EXCEPT !.ref_count = @ - 1] : o \in d.objects}

\* UPDATE objects AS o SET ref_count = ref_count - 1 WHERE EXISTS
\*   (SELECT 1 FROM labels WHERE namespace = ? AND label = ? AND object_id = o.id)
UnrefLabelTarget(d, key) ==
  {IF d.labels[key] = o.id THEN [o EXCEPT !.ref_count = @ - 1] ELSE o : o \in d.objects}

\* Variant of SetLabelRows: the batch without its second UPDATE (ref_count + 1).
SetLabelRowsNoIncrement(d, key, objectId) ==
  IF objectId # 0
  THEN [d EXCEPT !.objects = {IF d.labels[key] = o.id
                                THEN [o EXCEPT !.ref_count = @ - 1] ELSE o
                                : o \in d.objects},
                 !.labels[key] = objectId]
  ELSE [d EXCEPT !.objects = {IF d.labels[key] = o.id
                                THEN [o EXCEPT !.ref_count = @ - 1] ELSE o
                                : o \in d.objects},
                 !.labels[key] = 0]

\* The rows after SetLabel(namespace, label, name) with name resolved to
\* objectId (0 when name is nil: the label is deleted).
SetLabelRows(d, key, objectId) ==
  IF objectId # 0
  THEN [d EXCEPT !.objects = AddRef(UnrefLabelTarget(d, key), objectId, 1),
                 !.labels[key] = objectId]
  ELSE [d EXCEPT !.objects = UnrefLabelTarget(d, key),
                 !.labels[key] = 0]

\* SetLabel: one transaction.  A name with no objects row rolls back and
\* returns "Object with name does not exist".
SetLabel(s, key, name) ==
  /\ sessions[s] = "open"
  /\ tx = NoTx
  /\ IF name # NoName /\ ObjectsNamed(db, name) = {}
     THEN UNCHANGED db
     ELSE db' = SetLabelRows(db, key,
                  IF name = NoName THEN 0
                  ELSE (CHOOSE o \in ObjectsNamed(db, name) : TRUE).id)
  /\ UNCHANGED <<fsVars, now, tx, dataFiles, tempFiles, writers, sessions, gc, faults>>

\* GetLabel: the label's object, joined on objects; a hit renews its lease.
GetLabel(s, key) ==
  /\ sessions[s] = "open"
  /\ tx = NoTx
  /\ db' = [db EXCEPT !.objects =
       {IF o.id = db.labels[key]
          THEN [o EXCEPT !.lease_time = calculateLeaseTime(defaultObjectLease)]
          ELSE o : o \in @}]
  /\ UNCHANGED <<fsVars, now, tx, dataFiles, tempFiles, writers, sessions, gc, faults>>

\* --------------------------------------------------------------------- GC
IdleGc ==
  [pc |-> "idle", iterations |-> 0, ci |-> 0, budget |-> 0, complete |-> TRUE,
   captured |-> {}, toRemove |-> {}, result |-> "none", work |-> 0]

collectors == <<"collectObjects", "collectTempObjects">>

\* ORDER BY id LIMIT ?
FirstById(rows, limit) == {r \in rows : Cardinality({q \in rows : q.id < r.id}) < limit}

\* Variant of Deleteable: WHERE lease_time < ? (the ref_count test left out).
DeleteableIgnoringRefs(o, expiredLeaseTime) == o.lease_time < expiredLeaseTime

\* Variant of Deleteable: no WHERE clause at all.
DeleteableAlways(o, expiredLeaseTime) == TRUE

\* WHERE ref_count = 0 AND lease_time < ?
Deleteable(o, expiredLeaseTime) == o.ref_count = 0 /\ o.lease_time < expiredLeaseTime

\* Variant of RefChange: COUNT(DISTINCT od.parent_id), a parent counts once.
RefChangeOncePerParent(d, ids, childId) ==
  Cardinality({e.parent_id : e \in {x \in d.object_deps :
                                     x.parent_id \in ids /\ x.child_id = childId}})

\* WITH ref_changes AS (SELECT od.child_id, COUNT(1) ...) UPDATE objects
\*   SET ref_count = ref_count - ref_changes.amount
RefChange(d, ids, childId) ==
  Cardinality({e \in d.object_deps : e.parent_id \in ids /\ e.child_id = childId})

RECURSIVE InsertTempObjects(_, _)
InsertTempObjects(d, rows) ==
  IF rows = {} THEN d
  ELSE LET r == CHOOSE x \in rows : \A y \in rows : x.id <= y.id
       IN InsertTempObjects(InsertTempObject(d, r.name), rows \ {r})

\* The one statement batch of collectObjects (BEGIN IMMEDIATE .. COMMIT).
CollectObjectsRows(d, toDelete) ==
  LET ids == {o.id : o \in toDelete}
      d1  == [d EXCEPT
                !.objects = {[o EXCEPT !.ref_count = @ - RefChange(d, ids, o.id)]
                               : o \in {x \in d.objects : x.id \notin ids}},
                !.object_deps = {e \in @ : e.parent_id \notin ids}]
  IN InsertTempObjects(d1, toDelete)

\* Variant of WorkAmount: the budget is ignored.
WorkAmountUnbounded(budget) == maxWorkPerIteration

\* workAmount of one pass of the GarbageCollect loop
WorkAmount(budget) ==
  IF budget > 0 /\ budget < maxWorkPerIteration THEN budget ELSE maxWorkPerIteration

\* Variant of AfterCollector: each collector is called once, never again after
\* a pass that did work.
AfterCollectorOnePass(g, workDone) ==
  IF g.ci < Len(collectors)
  THEN [g EXCEPT !.ci = @ + 1, !.budget = g.iterations,
                 !.captured = {}, !.toRemove = {}, !.work = @ + workDone]
  ELSE [IdleGc EXCEPT !.result = IF g.complete THEN "complete" ELSE "incomplete",
                      !.work = g.work + workDone]

\* The loop of GarbageCollect after a collector returned workDone.  `work` adds
\* up the workDone of the call; the returned state keeps it with the result.
AfterCollector(g, workDone) ==
  LET next(c) ==
        IF g.ci < Len(collectors)
        THEN [g EXCEPT !.ci = @ + 1, !.budget = g.iterations, !.complete = c,
                       !.captured = {}, !.toRemove = {}, !.work = @ + workDone]
        ELSE [IdleGc EXCEPT !.result = IF c THEN "complete" ELSE "incomplete",
                            !.work = g.work + workDone]
  IN IF workDone = 0 THEN next(g.complete)
     ELSE IF workDone = g.budget THEN next(FALSE)
     ELSE [g EXCEPT !.budget = IF @ > 0 THEN @ - workDone ELSE @,
                    !.captured = {}, !.toRemove = {}, !.work = @ + workDone]

GarbageCollect(iterations) ==
  /\ gc.pc = "idle"
  /\ gc' = [IdleGc EXCEPT !.pc = "loop", !.iterations = iterations, !.ci = 1,
                          !.budget = iterations]
  /\ UNCHANGED <<fsVars, now, db, tx, dataFiles, tempFiles, writers, sessions, faults>>

collectObjects ==
  LET toDelete == FirstById({o \in db.objects : Deleteable(o, calculateLeaseTime(0))},
                            WorkAmount(gc.budget))
  IN /\ gc.pc = "loop"
     /\ collectors[gc.ci] = "collectObjects"
     /\ tx = NoTx
     /\ db' = CollectObjectsRows(db, toDelete)
     /\ gc' = AfterCollector(gc, Cardinality(toDelete))
     /\ UNCHANGED <<fsVars, now, tx, dataFiles, tempFiles, writers, sessions, faults>>

\* The temporary work tables of the store handle's connection: CREATE TEMP
\* TABLE and DROP TABLE, both outside any transaction
CreateTempTable(d, table) == [d EXCEPT !.temp_tables = @ \cup {table}]
DropTable(d, table) == [d EXCEPT !.temp_tables = @ \ {table}]

\* collectTempObjects, BEGIN IMMEDIATE and the capture: up to `amount` rows leave
\* temp_objects; the names that no objects row owns are to be removed from data/.
\* CREATE TEMP TABLE comes first, outside the transaction; when the handle
\* already has the table it fails and GarbageCollect returns the error.
collectTempObjectsBegin ==
  LET captured == FirstById(db.temp_objects, WorkAmount(gc.budget))
      created  == CreateTempTable(db, "temp_objects_to_delete")
      d1       == [created EXCEPT !.temp_objects = @ \ captured]
  IN /\ gc.pc = "loop"
     /\ collectors[gc.ci] = "collectTempObjects"
     /\ tx = NoTx
     /\ IF "temp_objects_to_delete" \in db.temp_tables
          THEN /\ gc' = [IdleGc EXCEPT !.result = "error"]
               /\ UNCHANGED <<db, tx>>
          ELSE /\ db' = created
               /\ tx' = [owner |-> <<"gc", 0>>, db |-> d1]
               /\ gc' = [gc EXCEPT !.pc = "temp", !.captured = captured,
                                   !.toRemove = {t.name : t \in captured} \ ObjectNames(d1)]
     /\ UNCHANGED <<fsVars, now, dataFiles, tempFiles, writers, sessions, faults>>

\* Variant of collectTempObjectsRemove: the COMMIT comes before the removal.
collectTempObjectsRemoveAfterCommit ==
  /\ gc.pc = "temp"
  /\ tx.owner = <<"gc", 0>>
  /\ \E name \in gc.toRemove :
       /\ dataFiles' = RemoveKey(dataFiles, name)
       /\ gc' = AfterCollector([gc EXCEPT !.pc = "loop"], Cardinality(gc.captured))
  /\ db' = DropTable(tx.db, "temp_objects_to_delete")
  /\ tx' = NoTx
  /\ UNCHANGED <<fsVars, now, tempFiles, writers, sessions, faults>>

\* os.Remove(objectPath) for one captured name; a missing file is ignored.
collectTempObjectsRemove ==
  /\ gc.pc = "temp"
  /\ \E name \in gc.toRemove :
       /\ dataFiles' = RemoveKey(dataFiles, name)
       /\ gc' = [gc EXCEPT !.toRemove = @ \ {name}]
  /\ UNCHANGED <<fsVars, now, db, tx, tempFiles, writers, sessions, faults>>

\* os.Remove fails with another error: ROLLBACK, GarbageCollect returns it.
\* The work table is not dropped on this path.
collectTempObjectsFail ==
  /\ gc.pc = "temp"
  /\ gc.toRemove # {}
  /\ faults > 0
  /\ faults' = faults - 1
  /\ tx' = NoTx
  /\ gc' = [IdleGc EXCEPT !.result = "error"]
  /\ UNCHANGED <<fsVars, now, db, dataFiles, tempFiles, writers, sessions>>

\* COMMIT, the count, DROP TABLE
collectTempObjectsCommit ==
  /\ gc.pc = "temp"
  /\ gc.toRemove = {}
  /\ db' = DropTable(tx.db, "temp_objects_to_delete")
  /\ tx' = NoTx
  /\ gc' = AfterCollector([gc EXCEPT !.pc = "loop"], Cardinality(gc.captured))
  /\ UNCHANGED <<fsVars, now, dataFiles, tempFiles, writers, sessions, faults>>

\* ------------------------------------------------------ crashes and time
\* The process running writer w dies: SQLite rolls its open transaction back.
CrashWriter(w) ==
  /\ writers[w].pc \in {"open", "temp", "commit"}
  /\ faults > 0
  /\ faults' = faults - 1
  /\ writers' = [writers EXCEPT ![w] = Finished(@, "crashed", NoName)]
  /\ tx' = IF tx.owner = <<"writer", w>> THEN NoTx ELSE tx
  /\ UNCHANGED <<fsVars, now, db, dataFiles, tempFiles, sessions, gc>>

\* The process running GarbageCollect dies: its transaction is rolled back
\* and the temporary tables go with its connection.
CrashGc ==
  /\ gc.pc # "idle"
  /\ faults > 0
  /\ faults' = faults - 1
  /\ gc' = [IdleGc EXCEPT !.result = "crashed"]
  /\ tx' = IF tx.owner = <<"gc", 0>> THEN NoTx ELSE tx
  /\ db' = [db EXCEPT !.temp_tables = {}]
  /\ UNCHANGED <<fsVars, now, dataFiles, tempFiles, writers, sessions>>

Tick ==
  /\ now < MaxTime
  /\ now' = now + 1
  /\ UNCHANGED <<fsVars, db, tx, dataFiles, tempFiles, writers, sessions, gc, faults>>

\* ------------------------------------------------ fixed-width integers
\* A uint32 is two 16-bit limbs <<high, low>>, a uint64 is four, the most
\* significant first; arithmetic is modulo 2^32 and 2^64 as in Go.
Limb == 65536

U32(n) == <<n \div Limb, n % Limb>>
U64(n) == <<0, 0>> \o U32(n)

\* The value as an integer of the model, where it is below 2^31.
Fits(x) == /\ \A i \in 1 .. (Len(x) - 2) : x[i] = 0
           /\ x[Len(x) - 1] < Limb \div 2
ToInt(x) == x[Len(x) - 1] * Limb + x[Len(x)]

Zero(x) == [i \in 1 .. Len(x) |-> 0]
One(x)  == [i \in 1 .. Len(x) |-> IF i = Len(x) THEN 1 ELSE 0]

\* <<carry out>> \o (a + b), limb by limb from the least significant
RECURSIVE AddLimbs(_, _)
AddLimbs(a, b) ==
  IF a = <<>> THEN <<0>>
  ELSE LET rest == AddLimbs(Tail(a), Tail(b))
           s    == Head(a) + Head(b) + Head(rest)
       IN <<s \div Limb, s % Limb>> \o Tail(rest)

UAdd(a, b) == Tail(AddLimbs(a, b))
USub(a, b) == UAdd(UAdd(a, [i \in 1 .. Len(b) |-> Limb - 1 - b[i]]), One(a))
ULess(a, b) == SeqLess(a, b)

\* x * y modulo 2^16 and in full, for 16-bit x and y, by the bytes of x
MulLow(x, y) == ((((x \div 256) * y) % 256) * 256 + (x % 256) * y) % Limb
MulFull(x, y) ==
  LET high == (x \div 256) * y
  IN UAdd(<<high \div 256, (high % 256) * 256>>, U32((x % 256) * y))

\* a * b of two uint32
UMul(a, b) ==
  UAdd(MulFull(a[2], b[2]), <<(MulLow(a[1], b[2]) + MulLow(a[2], b[1])) % Limb, 0>>)

\* a / b for b # 0
RECURSIVE UDiv(_, _)
UDiv(a, b) == IF ULess(a, b) THEN Zero(a) ELSE UAdd(One(a), UDiv(USub(a, b), b))

\* binary.BigEndian: Put writes the bytes of a value, Uint reads them back
RECURSIVE PutUint(_)
PutUint(x) ==
  IF x = <<>> THEN <<>>
  ELSE <<Head(x) \div 256, Head(x) % 256>> \o PutUint(Tail(x))

RECURSIVE Uint(_)
Uint(b) ==
  IF b = <<>> THEN <<>>
  ELSE <<b[1] * 256 + b[2]>> \o Uint(Tail(Tail(b)))

PutUint32(v) == PutUint(v)
PutUint64(v) == PutUint(v)
Uint32(buf, off) == Uint(SubSeq(buf, off + 1, off + 4))
Uint64(buf, off) == Uint(SubSeq(buf, off + 1, off + 8))

Zeros(n) == [i \in 1 .. n |-> 0]

\* ---------------------------------------------------- io.ReadSeeker
\* A stream is the bytes of a file and a position in them.  Seek(offset, 0)
\* takes any offset; an offset of 2^31 or more is past the end of every file
\* of the model and is kept as PastEnd.
PastEnd == 2147483647
Seek(offset) == IF Fits(offset) THEN ToInt(offset) ELSE PastEnd

\* readAll(stream, buf) with len(buf) = n: the bytes read and the position
\* after them, or io.EOF when fewer than n bytes are left.  Nothing is read, and
\* nothing fails, for n = 0.
readAll(data, pos, n) ==
  IF n > 0 /\ n > Len(data) - pos
    THEN [err |-> "EOF", buf |-> <<>>, pos |-> Max(pos, Len(data))]
    ELSE [err |-> "", buf |-> SubSeq(data, pos + 1, pos + n), pos |-> pos + n]

\* ------------------------------------------------------------- DirEntry
S_IFMT  == 61440
S_IFREG == 32768
S_IFDIR == 16384
S_IFLNK == 40960
S_IFCHR == 8192

\* mode & S_IFMT: S_IFMT is the four highest bits of the low limb
FileType(mode) == (mode[2] \div (Limb - S_IFMT)) * (Limb - S_IFMT)

S_ISREG(mode) == FileType(mode) = S_IFREG
S_ISDIR(mode) == FileType(mode) = S_IFDIR
S_ISLNK(mode) == FileType(mode) = S_IFLNK

fileModeHasObjectData(mode) == S_ISREG(mode) \/ S_ISDIR(mode) \/ S_ISLNK(mode)

\* A nil *hcas.Name is NoBytes; a Name is the 32 bytes of a SHA-256 sum.
NameSize == 32

\* var de DirEntry
ZeroEntry ==
  [Inode |-> [Mode |-> U32(0), Uid |-> U32(0), Gid |-> U32(0), Dev |-> U64(0),
              Atim |-> U64(0), Mtim |-> U64(0), Ctim |-> U64(0), Size |-> U64(0),
              ObjName |-> NoBytes],
   FileName |-> <<>>, TreeSize |-> U64(0), FileNameChecksum |-> U32(0),
   ParentDepIndex |-> U64(0)]

\* The record of an entry: the inode at 0..51, the object name at 52, the
\* ParentDepIndex at 84, the file name length at 92, the file name at 96,
\* zero padding to a multiple of 8.  TreeSize and FileNameChecksum are not
\* written.
Encode(d) ==
  LET bufLen == ((96 + Len(d.FileName) + 7) \div 8) * 8
  IN PutUint32(d.Inode.Mode) \o PutUint32(d.Inode.Uid) \o PutUint32(d.Inode.Gid)
       \o PutUint64(d.Inode.Dev) \o PutUint64(d.Inode.Atim)
       \o PutUint64(d.Inode.Mtim) \o PutUint64(d.Inode.Ctim)
       \o PutUint64(d.Inode.Size)
       \o (IF d.Inode.ObjName # NoBytes THEN d.Inode.ObjName ELSE Zeros(NameSize))
       \o PutUint64(d.ParentDepIndex)
       \o PutUint32(U32(Len(d.FileName)))
       \o d.FileName
       \o Zeros(bufLen - 96 - Len(d.FileName))

\* DecodeStream into the entry d, reading the stream `data` from `pos`: the
\* entry read, the error, the position after the record.
DecodeStream(d, data, pos) ==
  LET head == readAll(data, pos, 96)
      buf  == head.buf
      mode == Uint32(buf, 0)
      fileNameLen == Uint32(buf, 92)
      recordLen == ((96 + ToInt(fileNameLen) + 7) \div 8) * 8
      rest == readAll(data, head.pos, recordLen - 96)
      inode == [Mode |-> mode, Uid |-> Uint32(buf, 4), Gid |-> Uint32(buf, 8),
                Dev |-> Uint64(buf, 12), Atim |-> Uint64(buf, 20),
                Mtim |-> Uint64(buf, 28), Ctim |-> Uint64(buf, 36),
                Size |-> Uint64(buf, 44),
                ObjName |-> IF fileModeHasObjectData(mode)
                              THEN SubSeq(buf, 53, 84) ELSE d.Inode.ObjName]
      partial == [d EXCEPT !.Inode = inode, !.ParentDepIndex = Uint64(buf, 84)]
  IN IF head.err # "" THEN [err |-> head.err, de |-> d, pos |-> head.pos]
     ELSE IF ~Fits(fileNameLen) \/ ToInt(fileNameLen) > PastEnd - 103
       THEN [err |-> "EOF", de |-> partial, pos |-> Len(data)]
     ELSE IF rest.err # "" THEN [err |-> rest.err, de |-> partial, pos |-> rest.pos]
     ELSE [err |-> "",
           de |-> [partial EXCEPT !.FileName = SubSeq(rest.buf, 1, ToInt(fileNameLen))],
           pos |-> rest.pos]

\* ------------------------------------------------------------ dirBuilder
\* crc32.ChecksumIEEE of the file names of the model ("" and "b", "a",
\* "z2t8lz", "fageyn", 0xff 0xff 0xff 0xff): 0x00000000, 0x71beeff9,
\* 0xe8b7be43, 0x77275b88 twice, 0xffffffff.
FileNames ==
  {<<98>>, <<97>>, <<122, 50, 116, 56, 108, 122>>, <<102, 97, 103, 101, 121, 110>>,
   <<255, 255, 255, 255>>}

ChecksumIEEE(name) ==
  CASE name = <<>> -> <<0, 0>>
    [] name = <<98>> -> <<29118, 61433>>
    [] name = <<97>> -> <<59575, 48707>>
    [] name = <<122, 50, 116, 56, 108, 122>> -> <<30503, 23432>>
    [] name = <<102, 97, 103, 101, 121, 110>> -> <<30503, 23432>>
    [] name = <<255, 255, 255, 255>> -> <<65535, 65535>>

CreateDirBuilder == [DirEntries |-> <<>>, DepNames |-> <<>>, TotalTreeSize |-> U64(1)]

\* Insert panics on a tree size of 0, on a tree size above 1 for what is no
\* directory, and on an object name that does not go with the file type.
InsertPanics(inode, treeSize) ==
  \/ treeSize = U64(0)
  \/ ULess(U64(1), treeSize) /\ ~S_ISDIR(inode.Mode)
  \/ fileModeHasObjectData(inode.Mode) # (inode.ObjName # NoBytes)

Insert(d, fileName, inode, treeSize) ==
  [DirEntries |-> Append(d.DirEntries,
                         [ZeroEntry EXCEPT !.Inode = inode, !.FileName = fileName,
                                           !.TreeSize = treeSize,
                                           !.FileNameChecksum = ChecksumIEEE(fileName)]),
   DepNames |-> IF inode.ObjName # NoBytes THEN Append(d.DepNames, inode.ObjName)
                ELSE d.DepNames,
   TotalTreeSize |-> UAdd(d.TotalTreeSize, treeSize)]

\* sort.Slice by FileNameChecksum: the orders it may leave, one for each way of
\* placing the entries of equal checksum.
Sorted(entries) ==
  \A i \in 1 .. (Len(entries) - 1) :
    ~ULess(entries[i + 1].FileNameChecksum, entries[i].FileNameChecksum)

SortOrders(entries) ==
  {s \in [1 .. Len(entries) -> {entries[i] : i \in 1 .. Len(entries)}] :
     /\ \A i \in 1 .. Len(entries) : \E j \in 1 .. Len(entries) : s[j] = entries[i]
     /\ Sorted(s)}

\* Numbering that counts every entry as one node, whatever is below it
RECURSIVE AssignParentDepIndexFlat(_, _)
AssignParentDepIndexFlat(entries, parentOffset) ==
  IF entries = <<>> THEN <<>>
  ELSE <<[Head(entries) EXCEPT !.ParentDepIndex = parentOffset]>>
         \o AssignParentDepIndexFlat(Tail(entries), UAdd(parentOffset, U64(1)))

\* ParentDepIndex of the sorted entries: 1 + the tree sizes before each
RECURSIVE AssignParentDepIndex(_, _)
AssignParentDepIndex(entries, parentOffset) ==
  IF entries = <<>> THEN <<>>
  ELSE <<[Head(entries) EXCEPT !.ParentDepIndex = parentOffset]>>
         \o AssignParentDepIndex(Tail(entries),
                                 UAdd(parentOffset, Head(entries).TreeSize))

RECURSIVE Records(_)
Records(entries) ==
  IF entries = <<>> THEN <<>> ELSE Encode(Head(entries)) \o Records(Tail(entries))

\* The index: for each entry the position of its record and its checksum
RECURSIVE IndexOf(_, _)
IndexOf(entries, position) ==
  IF entries = <<>> THEN <<>>
  ELSE PutUint32(U32(position)) \o PutUint32(Head(entries).FileNameChecksum)
         \o IndexOf(Tail(entries), position + Len(Encode(Head(entries))))

\* Build, given the order the sort left: the builder's entries afterwards and
\* the bytes of the directory object.
Build(d, sorted) ==
  LET entries == AssignParentDepIndex(sorted, U64(1))
      headerSize == 16 + Len(entries) * 8
  IN [builder |-> [d EXCEPT !.DirEntries = entries],
      dataOut |-> PutUint32(U32(0)) \o PutUint32(U32(Len(entries)))
                    \o PutUint64(d.TotalTreeSize)
                    \o IndexOf(entries, headerSize) \o Records(entries)]

\* ----------------------------------------------------------- LookupChild
\* A nil *DirEntry
NilEntry == [ZeroEntry EXCEPT !.FileName = NoBytes]

headerOffset == 16

\* The interpolation search over the index: where it stops.  `kind` is "none"
\* (lo = hi: no entry of that checksum), "hit" (the index entry at `ind` has the
\* checksum), "err" (a read failed) or "panic" (hiCrc = loCrc: integer division
\* by zero).
RECURSIVE Search(_, _, _, _, _, _)
Search(data, crc, lo, hi, loCrc, hiCrc) ==
  LET stop(kind, err, ind, recordPosition) ==
        [kind |-> kind, err |-> err, ind |-> ind, lo |-> lo, hi |-> hi,
         recordPosition |-> recordPosition]
  IN IF lo = hi THEN stop("none", "", lo, U32(0))
     ELSE IF hiCrc = loCrc THEN stop("panic", "integer divide by zero", lo, U32(0))
     ELSE
       LET raw == UAdd(lo, UMul(UDiv(USub(crc, loCrc), USub(hiCrc, loCrc)),
                                USub(hi, lo)))
           ind == IF raw = hi THEN USub(raw, One(raw)) ELSE raw
           crcEntry == readAll(data, Seek(UAdd(U32(headerOffset), UMul(U32(8), ind))), 8)
           recordChecksum == Uint32(crcEntry.buf, 4)
       IN IF crcEntry.err # "" THEN stop("err", crcEntry.err, ind, U32(0))
          ELSE IF ULess(recordChecksum, crc)
            THEN Search(data, crc, UAdd(ind, One(ind)), hi, recordChecksum, hiCrc)
          ELSE IF ULess(crc, recordChecksum)
            THEN Search(data, crc, lo, ind, loCrc, recordChecksum)
          ELSE stop("hit", "", ind, Uint32(crcEntry.buf, 0))

\* The record at recordPosition, if its file name is `name`
extractDirEntry(data, recordPosition, name) ==
  LET r == DecodeStream(ZeroEntry, data, Seek(recordPosition))
  IN IF r.err # "" THEN [entry |-> NilEntry, err |-> r.err, pos |-> r.pos]
     ELSE IF r.de.FileName = name THEN [entry |-> r.de, err |-> "", pos |-> r.pos]
     ELSE [entry |-> NilEntry, err |-> "", pos |-> r.pos]

\* The index entry `index`, read at the stream's position unless needSeek: its
\* record position, and `match`, which is recordChecksum != crc.
crcMatch(data, pos, index, needSeek, crc) ==
  LET crcEntry == readAll(data,
                          IF needSeek
                            THEN Seek(UAdd(U32(headerOffset), UMul(U32(8), index)))
                            ELSE pos,
                          8)
  IN IF crcEntry.err # ""
       THEN [match |-> FALSE, err |-> crcEntry.err, recordPosition |-> U32(0),
             pos |-> crcEntry.pos]
       ELSE [match |-> Uint32(crcEntry.buf, 4) # crc, err |-> "",
             recordPosition |-> Uint32(crcEntry.buf, 0), pos |-> crcEntry.pos]

\* for testInd := ind - 1; testInd >= lo; testInd-- over uint32
RECURSIVE Backward(_, _, _, _, _)
Backward(data, name, crc, testInd, lo) ==
  IF ULess(testInd, lo) THEN [entry |-> NilEntry, err |-> ""]
  ELSE LET m == crcMatch(data, 0, testInd, TRUE, crc)
           e == extractDirEntry(data, m.recordPosition, name)
       IN IF m.err # "" THEN [entry |-> NilEntry, err |-> m.err]
          ELSE IF ~m.match THEN [entry |-> NilEntry, err |-> ""]
          ELSE IF e.entry # NilEntry \/ e.err # "" THEN [entry |-> e.entry, err |-> e.err]
          ELSE Backward(data, name, crc, USub(testInd, One(testInd)), lo)

\* for testInd := ind + 1; testInd < hi; testInd++, then the loop downwards
RECURSIVE Forward(_, _, _, _, _, _, _, _, _)
Forward(data, name, crc, testInd, needSeek, pos, ind, lo, hi) ==
  IF ~ULess(testInd, hi)
    THEN Backward(data, name, crc, USub(ind, One(ind)), lo)
  ELSE LET m == crcMatch(data, pos, testInd, needSeek, crc)
           e == extractDirEntry(data, m.recordPosition, name)
       IN IF m.err # "" THEN [entry |-> NilEntry, err |-> m.err]
          ELSE IF ~m.match THEN Backward(data, name, crc, USub(ind, One(ind)), lo)
          ELSE IF e.entry # NilEntry \/ e.err # "" THEN [entry |-> e.entry, err |-> e.err]
          ELSE Forward(data, name, crc, UAdd(testInd, One(testInd)), FALSE, e.pos,
                       ind, lo, hi)

\* LookupChild(dirData, name) on a stream at position 0: (dirEntry, err)
LookupChild(data, name) ==
  LET header == readAll(data, 0, 16)
      flags == Uint32(header.buf, 0)
      childCount == Uint32(header.buf, 4)
      crc == ChecksumIEEE(name)
      s == Search(data, crc, U32(0), childCount, <<0, 0>>, <<Limb - 1, Limb - 1>>)
      first == extractDirEntry(data, s.recordPosition, name)
  IN IF header.err # "" THEN [entry |-> NilEntry, err |-> header.err]
     ELSE IF flags # U32(0) THEN [entry |-> NilEntry, err |-> "unexpected flags"]
     ELSE IF s.kind = "none" THEN [entry |-> NilEntry, err |-> ""]
     ELSE IF s.kind # "hit" THEN [entry |-> NilEntry, err |-> s.err]
     ELSE IF first.entry # NilEntry \/ first.err # ""
       THEN [entry |-> first.entry, err |-> first.err]
     ELSE Forward(data, name, crc, UAdd(s.ind, One(s.ind)), TRUE, first.pos,
                  s.ind, s.lo, s.hi)

\* The windows [lo, hi) the search loop of LookupChild goes through, the first
\* one included
RECURSIVE SearchWindows(_, _, _, _, _, _)
SearchWindows(data, crc, lo, hi, loCrc, hiCrc) ==
  <<[lo |-> lo, hi |-> hi]>> \o
  (IF lo = hi \/ hiCrc = loCrc THEN <<>>
   ELSE
     LET raw == UAdd(lo, UMul(UDiv(USub(crc, loCrc), USub(hiCrc, loCrc)),
                              USub(hi, lo)))
         ind == IF raw = hi THEN USub(raw, One(raw)) ELSE raw
         crcEntry == readAll(data, Seek(UAdd(U32(headerOffset), UMul(U32(8), ind))), 8)
         recordChecksum == Uint32(crcEntry.buf, 4)
     IN IF crcEntry.err # "" THEN <<>>
        ELSE IF ULess(recordChecksum, crc)
          THEN SearchWindows(data, crc, UAdd(ind, One(ind)), hi, recordChecksum, hiCrc)
        ELSE IF ULess(crc, recordChecksum)
          THEN SearchWindows(data, crc, lo, ind, loCrc, recordChecksum)
        ELSE <<>>)

\* The index positions crcMatch is called with by the loop downwards, in order
RECURSIVE BackwardReads(_, _, _, _, _)
BackwardReads(data, name, crc, testInd, lo) ==
  IF ULess(testInd, lo) THEN <<>>
  ELSE LET m == crcMatch(data, 0, testInd, TRUE, crc)
           e == extractDirEntry(data, m.recordPosition, name)
       IN <<testInd>> \o
          (IF m.err # "" \/ ~m.match \/ e.entry # NilEntry \/ e.err # "" THEN <<>>
           ELSE BackwardReads(data, name, crc, USub(testInd, One(testInd)), lo))

\* The index positions crcMatch is called with by the loop upwards and the
\* loop downwards after it
RECURSIVE ForwardReads(_, _, _, _, _, _, _, _, _)
ForwardReads(data, name, crc, testInd, needSeek, pos, ind, lo, hi) ==
  IF ~ULess(testInd, hi)
    THEN BackwardReads(data, name, crc, USub(ind, One(ind)), lo)
  ELSE LET m == crcMatch(data, pos, testInd, needSeek, crc)
           e == extractDirEntry(data, m.recordPosition, name)
       IN <<testInd>> \o
          (IF m.err # "" THEN <<>>
           ELSE IF ~m.match THEN BackwardReads(data, name, crc, USub(ind, One(ind)), lo)
           ELSE IF e.entry # NilEntry \/ e.err # "" THEN <<>>
           ELSE ForwardReads(data, name, crc, UAdd(testInd, One(testInd)), FALSE, e.pos,
                             ind, lo, hi))

\* The index positions the two walks of LookupChild(data, name) read
LookupChildReads(data, name) ==
  LET header == readAll(data, 0, 16)
      crc == ChecksumIEEE(name)
      s == Search(data, crc, U32(0), Uint32(header.buf, 4), <<0, 0>>, <<Limb - 1, Limb - 1>>)
      first == extractDirEntry(data, s.recordPosition, name)
  IN IF header.err # "" \/ Uint32(header.buf, 0) # U32(0) \/ s.kind # "hit" THEN <<>>
     ELSE IF first.entry # NilEntry \/ first.err # "" THEN <<>>
     ELSE ForwardReads(data, name, crc, UAdd(s.ind, One(s.ind)), TRUE, first.pos,
                       s.ind, s.lo, s.hi)

\* --------------------------------------------- directory objects in use
MaxEntries  == 3
MaxTreeSize == 2

ObjNameA == [i \in 1 .. NameSize |-> i]
ObjNameB == [i \in 1 .. NameSize |-> 7 * i]

InodeOf(mode, size, objName) ==
  [ZeroEntry.Inode EXCEPT !.Mode = U32(mode), !.Uid = U32(1000), !.Gid = U32(1000),
                          !.Mtim = U64(1), !.Size = U64(size), !.ObjName = objName]

\* a regular file, a directory, a character device
Inodes ==
  {InodeOf(S_IFREG + 420, 9, ObjNameA), InodeOf(S_IFDIR + 493, 4096, ObjNameB),
   InodeOf(S_IFCHR + 438, 0, NoBytes)}

NoLookup == [name |-> NoBytes, entry |-> NilEntry, err |-> ""]

BuilderNames == {builder.DirEntries[i].FileName : i \in 1 .. Len(builder.DirEntries)}

\* builder.Insert(fileName, inode, treeSize), of a name not inserted before
DirInsert(fileName, inode, treeSize) ==
  /\ blob = NoBytes
  /\ Len(builder.DirEntries) < MaxEntries
  /\ fileName \notin BuilderNames
  /\ ~InsertPanics(inode, treeSize)
  /\ builder' = Insert(builder, fileName, inode, treeSize)
  /\ UNCHANGED <<storeVars, hashVars, handleVars, raceVars, serveVars, readVars, tarVars, blob, found, entry, decoded, mountVars>>

\* dirData := builder.Build()
DirBuild ==
  /\ blob = NoBytes
  /\ \E sorted \in SortOrders(builder.DirEntries) :
       /\ builder' = Build(builder, sorted).builder
       /\ blob' = Build(builder, sorted).dataOut
  /\ UNCHANGED <<storeVars, hashVars, handleVars, raceVars, serveVars, readVars, tarVars, found, entry, decoded, mountVars>>

\* entry, err := LookupChild(bytes.NewReader(dirData), name)
DirLookup(name) ==
  /\ blob # NoBytes
  /\ found' = [name |-> name] @@ LookupChild(blob, name)
  /\ UNCHANGED <<storeVars, hashVars, handleVars, raceVars, serveVars, readVars, tarVars, builder, blob, entry, decoded, mountVars>>

\* ------------------------------------------------- one entry, round trip
NoDecode == [err |-> "", de |-> NilEntry]

\* regular file, directory, symbolic link, character device
Modes == {S_IFREG + 420, S_IFDIR + 493, S_IFLNK + 511, S_IFCHR + 438}

\* The entries to encode: every file type with and without an object name.
Entries ==
  {[Inode |-> InodeOf(mode, 9, objName), FileName |-> fileName,
    TreeSize |-> U64(treeSize), FileNameChecksum |-> checksum,
    ParentDepIndex |-> U64(index)] :
     mode \in Modes, objName \in {NoBytes, ObjNameA},
     fileName \in {<<98>>, <<122, 50, 116, 56, 108, 122>>},
     checksum \in {U32(0), ChecksumIEEE(<<98>>)},
     treeSize \in 0 .. MaxTreeSize, index \in {0, 100}}

\* encoded := dirEntry.Encode()
EntryEncode ==
  /\ blob = NoBytes
  /\ blob' = Encode(entry)
  /\ UNCHANGED <<storeVars, hashVars, handleVars, raceVars, serveVars, readVars, tarVars, builder, found, entry, decoded, mountVars>>

\* var decoded DirEntry; err := decoded.DecodeStream(bytes.NewReader(encoded))
EntryDecode ==
  /\ blob # NoBytes
  /\ decoded = NoDecode
  /\ LET r == DecodeStream(ZeroEntry, blob, 0)
     IN decoded' = [err |-> r.err, de |-> r.de]
  /\ UNCHANGED <<storeVars, hashVars, handleVars, raceVars, serveVars, readVars, tarVars, builder, blob, found, entry, mountVars>>

\* ------------------------------------------------- ImportPath of a tree
MaxDepth == 2
MaxPaths == 4
MaxRefs  == 2

\* The directory to import: what each path under it is, "dir" or "reg".  A
\* path is the sequence of file names from the root directory <<>>.
TreeNames == {<<98>>, <<97>>}

TreePaths == UNION {[1 .. k -> TreeNames] : k \in 0 .. MaxDepth}

Parent(p) == SubSeq(p, 1, Len(p) - 1)

Trees ==
  {t \in UNION {[S -> {"dir", "reg"}] : S \in SUBSET TreePaths} :
     /\ Cardinality(DOMAIN t) <= MaxPaths
     /\ <<>> \in DOMAIN t
     /\ t[<<>>] = "dir"
     /\ \A p \in DOMAIN t \ {<<>>} : Parent(p) \in DOMAIN t /\ t[Parent(p)] = "dir"}

EmptyTree == [p \in {<<>>} |-> "dir"]

Children(t, p) == {n \in TreeNames : Append(p, n) \in DOMAIN t}

\* The order Getdents lists names in: here the order of their bytes
RECURSIVE Listing(_)
Listing(names) ==
  IF names = {} THEN <<>>
  ELSE LET n == CHOOSE x \in names : \A y \in names \ {x} : SeqLess(x, y)
       IN <<n>> \o Listing(names \ {n})

\* SHA-256 stands as a sum of 32 lanes, the bytes of each lane weighted by
\* their place; the stores of the model hold no two contents of one sum.
RECURSIVE LaneSum(_, _, _)
LaneSum(data, i, k) ==
  IF i + NameSize * k > Len(data) THEN 0
  ELSE ((k + 1) * data[i + NameSize * k] + LaneSum(data, i, k + 1)) % 256

Sum256(data) == [i \in 1 .. NameSize |-> LaneSum(data, i, 0)]

RECURSIVE InsertName(_, _)
InsertName(x, s) ==
  IF s = <<>> THEN <<x>>
  ELSE IF SeqLess(x, Head(s)) THEN <<x>> \o s
  ELSE <<Head(s)>> \o InsertName(x, Tail(s))

RECURSIVE SortNames(_)
SortNames(s) == IF s = <<>> THEN <<>> ELSE InsertName(Head(s), SortNames(Tail(s)))

RECURSIVE Concat(_)
Concat(s) == IF s = <<>> THEN <<>> ELSE Head(s) \o Concat(Tail(s))

\* Variant of HashedInput: the dependency names in the order they were passed.
HashedInputUnsorted(buffer, deps) ==
  PutUint32(U32(Len(deps))) \o Concat(deps) \o buffer

\* What createObjectStreamWithBuffer and the Writes after it give the hash:
\* the count of deps in 4 bytes, the names of the sorted copy, the content
HashedInput(buffer, deps) ==
  PutUint32(U32(Len(deps))) \o Concat(SortNames(deps)) \o buffer

\* The name CreateObject(data, deps...) returns: the sum over the dependency
\* count, the sorted dependency names and the content.
ObjectName(data, deps) == Sum256(HashedInput(data, deps))

\* InodeFromStat(st, objName): Dev is kept for devices only
InodeFromStat(st, objName) ==
  [Mode |-> st.Mode, Uid |-> st.Uid, Gid |-> st.Gid, Dev |-> U64(0),
   Atim |-> st.Atim, Mtim |-> st.Mtim, Ctim |-> st.Ctim, Size |-> st.Size,
   ObjName |-> objName]

\* Fstat of a path of the tree; a regular file's content is its own name
Fstat(t, p) ==
  [Mode |-> IF t[p] = "dir" THEN U32(S_IFDIR + 493) ELSE U32(S_IFREG + 420),
   Uid |-> U32(1000), Gid |-> U32(1000),
   Atim |-> U64(1), Mtim |-> U64(1), Ctim |-> U64(1),
   Size |-> IF t[p] = "dir" THEN U64(4096) ELSE U64(Len(p[Len(p)]))]

\* The loop of importDirectory over the listing `rest` of the directory at p,
\* with the builder d and the objects created so far; sub[fileName] is what
\* importDirectory returned for the child directory of that name.
RECURSIVE insertAll(_, _, _, _, _, _)
insertAll(t, p, sub, d, objs, rest) ==
  IF rest = <<>> THEN [builder |-> d, objects |-> objs]
  ELSE LET fileName == Head(rest)
           child == Append(p, fileName)
           regular == [name |-> ObjectName(fileName, <<>>), data |-> fileName]
           childObjName == IF t[child] = "dir" THEN sub[fileName].name ELSE regular.name
           childTreeSize == IF t[child] = "dir" THEN sub[fileName].treeSize ELSE U64(1)
       IN insertAll(t, p, sub,
                    Insert(d, fileName, InodeFromStat(Fstat(t, child), childObjName),
                           childTreeSize),
                    objs \cup (IF t[child] = "dir" THEN sub[fileName].objects
                                ELSE {regular}),
                    Tail(rest))

\* importDirectory of the directory at p: the name of its object, its
\* TotalTreeSize, and the objects created, each a name and its data.
RECURSIVE importDirectory(_, _)
importDirectory(t, p) ==
  LET dirs == {n \in Children(t, p) : t[Append(p, n)] = "dir"}
      sub == [n \in dirs |-> importDirectory(t, Append(p, n))]
      all == insertAll(t, p, sub, CreateDirBuilder, {}, Listing(Children(t, p)))
      built == Build(all.builder,
                     CHOOSE s \in SortOrders(all.builder.DirEntries) : TRUE)
      name == ObjectName(built.dataOut, all.builder.DepNames)
  IN [name |-> name, treeSize |-> all.builder.TotalTreeSize,
      objects |-> all.objects \cup {[name |-> name, data |-> built.dataOut]}]

\* ------------------------------------------------------- the FUSE mount
\* os.Open of data/<name>: the bytes of the object
openFileByName(name) == (CHOOSE o \in objects : o.name = name).data

\* CreateServer: the root inode under node id 1
CreateServer(rootName) ==
  [id \in {1} |-> [Inode |-> [ZeroEntry.Inode EXCEPT !.Mode = U32(S_IFDIR + 511),
                                                       !.ObjName = rootName],
                   RefCount |-> 1]]

trackInode(map, inodeId, inodeData) ==
  IF inodeId \in DOMAIN map
    THEN [map EXCEPT ![inodeId].RefCount = @ + 1]
    ELSE [id \in DOMAIN map \cup {inodeId} |->
            IF id = inodeId THEN [Inode |-> inodeData, RefCount |-> 1] ELSE map[id]]

\* The second half of handleLookupRequest, with r what LookupChild returned:
\* an error or a missing name is answered and changes nothing; otherwise the
\* child is tracked under inodeId = node + ParentDepIndex.  `paths` records
\* which path of the tree each lookup resolved under which node id.
trackLookup(node, name, r, inodeId) ==
  /\ found' = [name |-> name] @@ r
  /\ IF r.err # "" \/ r.entry = NilEntry
       THEN UNCHANGED <<inodeMap, paths>>
       ELSE /\ inodeId \in DOMAIN inodeMap => inodeMap[inodeId].RefCount < MaxRefs
            /\ inodeMap' = trackInode(inodeMap, inodeId, r.entry.Inode)
            /\ paths' = [id \in DOMAIN paths \cup {inodeId} |->
                           IF id = inodeId
                             THEN {Append(q, name) : q \in paths[node]}
                                    \cup (IF id \in DOMAIN paths THEN paths[id] ELSE {})
                             ELSE paths[id]]

\* inodeId := req.Node + dirEntry.ParentDepIndex
childInodeId(node, r) == ToInt(UAdd(U64(node), r.entry.ParentDepIndex))

\* A lookup of `name` in the directory the kernel holds as node `node`
handleLookupRequest(node, name) ==
  /\ node \in DOMAIN inodeMap
  /\ S_ISDIR(inodeMap[node].Inode.Mode)
  /\ \E r \in {LookupChild(openFileByName(inodeMap[node].Inode.ObjName), name)} :
       trackLookup(node, name, r, childInodeId(node, r))
  /\ UNCHANGED <<storeVars, hashVars, handleVars, raceVars, serveVars, readVars, tarVars, builder, blob, entry, decoded, tree, objects>>

\* ---------------------------------------------------- ImportTar of an archive
MaxHeaders == 3

\* A header of the archive: its cleaned Name as the sequence of file names
\* from the root, its Typeflag, Linkname (hard links), Mode, Uid, Size and, for
\* a regular file, the content that follows it.
TarNames == {<<97>>, <<98>>, <<255, 255, 255, 255>>}
TarPaths == {<<n>> : n \in TarNames} \cup {<<<<97>>, <<98>>>>}

TarHeader(name, typeflag, linkname, mode, uid, content) ==
  [Name |-> name, Typeflag |-> typeflag, Linkname |-> linkname, Mode |-> mode,
   Uid |-> uid, Size |-> Len(content), content |-> content]

TarHeaders ==
  {TarHeader(name, "reg", <<>>, 420, uid, [i \in 1 .. uid |-> 7]) :
     name \in TarPaths, uid \in 1 .. 2}
    \cup {TarHeader(name, "dir", <<>>, 493, 0, <<>>) : name \in TarPaths}
    \cup {TarHeader(name, "link", linkname, 384, 3, <<>>) :
            name \in TarPaths, linkname \in TarPaths}

Archives == UNION {[1 .. n -> TarHeaders] : n \in 0 .. MaxHeaders}

tarModeToUnixMode(tarMode, typeflag) ==
  U32((tarMode % 512)
        + (CASE typeflag \in {"reg", "link"} -> S_IFREG
             [] typeflag = "dir" -> S_IFDIR
             [] typeflag = "symlink" -> S_IFLNK
             [] typeflag = "char" -> S_IFCHR
             [] OTHER -> S_IFREG))

InodeFromTarHeader(header) ==
  [ZeroEntry.Inode EXCEPT
     !.Mode = tarModeToUnixMode(header.Mode, header.Typeflag),
     !.Uid = U32(header.Uid),
     !.Size = U64(IF header.Typeflag = "symlink" THEN Len(header.Linkname)
                  ELSE header.Size)]

\* importTarRegular: the name of the object holding the first `size` bytes
importTarRegular(content, size) == ObjectName(SubSeq(content, 1, size), <<>>)

\* filepath.Base and filepath.Dir of a cleaned name; "/" is its own base
Base(name) == IF name = <<>> THEN <<47>> ELSE name[Len(name)]
Dir(name)  == IF name = <<>> THEN <<>> ELSE SubSeq(name, 1, Len(name) - 1)

validatePathName(name) == name # <<>> /\ \A i \in 1 .. Len(name) : name[i] \notin {0, 47}

\* The name as the string the code sorts: "/" and the file names joined by "/"
RECURSIVE PathString(_)
PathString(name) ==
  IF name = <<>> THEN <<>> ELSE <<47>> \o Head(name) \o PathString(Tail(name))

\* tarDirEntry values are held by pointer: entry 0 is rootEntry, entry i the
\* fileEntry made for header i.  dirEntries maps a path to an entry, children
\* a file name to an entry.  order is history: the paths whose directory
\* object the last loop has come to, in that order.
NoChildren == [n \in {} |-> 0]

TarStart ==
  [entries |-> [i \in {0} |-> [inode |-> ZeroEntry.Inode, treeSize |-> U64(0),
                               children |-> NoChildren]],
   dirEntries |-> [p \in {<<>>} |-> 0],
   hardlinks |-> <<>>,
   order |-> <<>>,
   err |-> ""]

\* One pass of the loop over tr.Next(): header i of the archive
tarHeader(st, header, i) ==
  LET name == header.Name
      fileName == Base(name)
      dirPath == Dir(name)
      objName == IF header.Typeflag = "reg"
                   THEN importTarRegular(header.content, header.Size) ELSE NoBytes
      fileEntry == [inode |-> [InodeFromTarHeader(header) EXCEPT !.ObjName = objName],
                    treeSize |-> U64(1), children |-> NoChildren]
      withEntry == [st EXCEPT
                      !.entries = PutKey(@, i, fileEntry),
                      !.dirEntries = IF header.Typeflag = "dir"
                                       THEN PutKey(@, name, i) ELSE @,
                      !.hardlinks = IF header.Typeflag = "link"
                                      THEN Append(@, [fileEntry |-> i,
                                                      linkname |-> header.Linkname])
                                      ELSE @]
  IN IF ~validatePathName(fileName) THEN st
     ELSE IF name = <<>> THEN withEntry
     ELSE IF dirPath \notin DOMAIN withEntry.dirEntries
       THEN [withEntry EXCEPT !.err = "directory entries must appear before children"]
     ELSE [withEntry EXCEPT
             !.entries[withEntry.dirEntries[dirPath]].children = PutKey(@, fileName, i)]

RECURSIVE tarHeaders(_, _, _)
tarHeaders(st, arch, i) ==
  IF i > Len(arch) \/ st.err # "" THEN st
  ELSE tarHeaders(tarHeader(st, arch[i], i), arch, i + 1)

\* A fix-up that takes the object of the target and keeps the link's own metadata
copyObjName(fileInode, linkInode) == [fileInode EXCEPT !.ObjName = linkInode.ObjName]

\* hardlink.fileEntry.inode = linkEntry.inode
copyInode(fileInode, linkInode) == linkInode

\* The entry a link name refers to, or -1
linkTarget(st, linkname) ==
  LET linkFileName == Base(linkname)
      linkDirPath == Dir(linkname)
  IN IF linkDirPath \in DOMAIN st.dirEntries
          /\ linkFileName \in DOMAIN st.entries[st.dirEntries[linkDirPath]].children
       THEN st.entries[st.dirEntries[linkDirPath]].children[linkFileName]
       ELSE -1

\* The loop that fixes up the hard links, in the order they were met
RECURSIVE fixHardlinks(_, _)
fixHardlinks(st, k) ==
  IF k > Len(st.hardlinks) \/ st.err # "" THEN st
  ELSE LET hardlink == st.hardlinks[k]
           linkEntry == linkTarget(st, hardlink.linkname)
       IN IF linkEntry = -1
            THEN [st EXCEPT !.err = "archive contains broken hardlink"]
          ELSE IF ~S_ISREG(st.entries[linkEntry].inode.Mode)
            THEN [st EXCEPT !.err = "archive contains hardlink to non regular file"]
          ELSE fixHardlinks(
                 [st EXCEPT !.entries[hardlink.fileEntry].inode =
                              copyInode(@, st.entries[linkEntry].inode)],
                 k + 1)

\* Variant of PathsDescending: paths[i] < paths[j], the root first.
RECURSIVE PathsAscending(_)
PathsAscending(ps) ==
  IF ps = {} THEN <<>>
  ELSE LET low == CHOOSE p \in ps :
                    \A q \in ps \ {p} : SeqLess(PathString(p), PathString(q))
       IN <<low>> \o PathsAscending(ps \ {low})

\* sort.Slice(paths, paths[i] > paths[j])
RECURSIVE PathsDescending(_)
PathsDescending(ps) ==
  IF ps = {} THEN <<>>
  ELSE LET top == CHOOSE p \in ps :
                    \A q \in ps \ {p} : SeqLess(PathString(q), PathString(p))
       IN <<top>> \o PathsDescending(ps \ {top})

\* The Insert calls for the children of one directory
RECURSIVE tarInsertAll(_, _, _, _)
tarInsertAll(st, children, d, rest) ==
  IF rest = <<>> THEN [builder |-> d, panic |-> FALSE]
  ELSE LET child == st.entries[children[Head(rest)]]
       IN IF InsertPanics(child.inode, child.treeSize)
            THEN [builder |-> d, panic |-> TRUE]
            ELSE tarInsertAll(st, children,
                              Insert(d, Head(rest), child.inode, child.treeSize),
                              Tail(rest))

\* The loop that builds the directory objects, deepest path first
RECURSIVE tarBuild(_, _)
tarBuild(st, dirPaths) ==
  IF dirPaths = <<>> \/ st.err # "" THEN st
  ELSE LET e == st.dirEntries[Head(dirPaths)]
           children == st.entries[e].children
           all == tarInsertAll(st, children, CreateDirBuilder, Listing(DOMAIN children))
           built == Build(all.builder,
                          CHOOSE s \in SortOrders(all.builder.DirEntries) : TRUE)
           name == ObjectName(built.dataOut, all.builder.DepNames)
       IN IF all.panic
            THEN [st EXCEPT !.err = "panic", !.order = Append(@, Head(dirPaths))]
          ELSE tarBuild([st EXCEPT !.entries[e].inode.ObjName = name,
                                   !.entries[e].treeSize = all.builder.TotalTreeSize,
                                   !.order = Append(@, Head(dirPaths))],
                        Tail(dirPaths))

\* ImportTar: the entries as the import left them, the root object's name,
\* the error returned ("panic" when Insert panicked)
ImportTar(arch) ==
  LET read == tarHeaders(TarStart, arch, 1)
      fixed == fixHardlinks(read, 1)
      done == tarBuild(fixed, PathsDescending(DOMAIN fixed.dirEntries))
  IN [entries |-> done.entries, dirEntries |-> done.dirEntries,
      hardlinks |-> done.hardlinks, order |-> done.order, err |-> done.err,
      name |-> IF done.err = "" THEN done.entries[0].inode.ObjName ELSE NoBytes]

NoImport == [entries |-> <<>>, dirEntries |-> <<>>, hardlinks |-> <<>>,
             order |-> <<>>, err |-> "none", name |-> NoBytes]

tarImport ==
  /\ imported = NoImport
  /\ imported' = ImportTar(archive)
  /\ UNCHANGED <<storeVars, hashVars, handleVars, raceVars, serveVars, readVars, builder, blob, found, entry, decoded, mountVars, archive>>

\* ------------------------------------------------- directory file handles
MaxReads == 4

\* Read buffer sizes of the model: room for one, one and a half, two and
\* three entries of a one-letter name
ReadSizes == {32, 48, 64, 96}

\* A directory that is not open
NoHandle == [err |-> "closed"]

\* CreateFileHandleDir: the directory object's file, positioned after its
\* header, the entry count and a cursor of 0; nodeFile is the object's bytes
\* and the position in them
CreateFileHandleDir(inodeId, data) ==
  LET header == readAll(data, 0, 16)
      flags == Uint32(header.buf, 0)
      dirEntries == Uint32(header.buf, 4)
  IN IF header.err # "" THEN [err |-> header.err]
     ELSE IF flags # U32(0) THEN [err |-> "Unknown directory format"]
     ELSE [err |-> "", nodeFile |-> data,
           pos |-> Seek(UAdd(U32(16), UMul(U32(8), dirEntries))),
           inodeId |-> inodeId, dirEntryCount |-> ToInt(dirEntries),
           currentSeek |-> 0]

direntAlign(x) == ((x + 7) \div 8) * 8

\* addDirEntry: the size the entry takes in a buffer of bufLen bytes, 0 when
\* it does not fit, and the fuse_dirent written
addDirEntry(bufLen, name, inodeId, offset, inodeMode) ==
  LET entryPadLen == direntAlign(24 + Len(name))
  IN IF bufLen < entryPadLen THEN [size |-> 0, dirent |-> <<>>]
     ELSE [size |-> entryPadLen,
           dirent |-> <<[ino |-> inodeId, off |-> offset, namelen |-> Len(name),
                         type |-> FileType(inodeMode) \div 4096, name |-> name]>>]

\* One pass of the emit loop of Read: an entry is decoded from the file at its
\* position and added to the buffer; `more` tells whether the loop goes on.  The
\* error of DecodeStream is not looked at.
readIteration(h, room, out) ==
  IF ~(h.currentSeek < h.dirEntryCount)
    THEN [handle |-> h, room |-> room, out |-> out, more |-> FALSE]
  ELSE LET r == DecodeStream(ZeroEntry, h.nodeFile, h.pos)
           added == addDirEntry(room, r.de.FileName,
                                UAdd(U64(h.inodeId), r.de.ParentDepIndex),
                                h.currentSeek + 1, r.de.Inode.Mode)
           moved == [h EXCEPT !.pos = r.pos]
       IN IF added.size = 0
            THEN [handle |-> moved, room |-> room, out |-> out, more |-> FALSE]
            ELSE [handle |-> [moved EXCEPT !.currentSeek = @ + 1],
                  room |-> room - added.size, out |-> out \o added.dirent,
                  more |-> TRUE]

\* The emit loop of Read: entries are decoded and added until one does not fit
\* or the cursor reaches the entry count.
RECURSIVE readLoop(_, _, _)
readLoop(h, room, out) ==
  LET it == readIteration(h, room, out)
  IN IF it.more THEN readLoop(it.handle, it.room, it.out)
     ELSE [handle |-> it.handle, Data |-> it.out]

\* The seek of Read for an offset that is not the cursor: the record position
\* is read from the index
readSeek(h, offset) ==
  LET offsetBuf == readAll(h.nodeFile, Seek(U32(16 + 8 * offset)), 4)
  IN IF offsetBuf.err # ""
       THEN [err |-> offsetBuf.err, handle |-> [h EXCEPT !.pos = offsetBuf.pos]]
       ELSE [err |-> "",
             handle |-> [h EXCEPT !.pos = Seek(Uint32(offsetBuf.buf, 0)),
                                  !.currentSeek = offset]]

\* FileHandleDir.Read of a directory read request: the handle afterwards,
\* the error returned or the Data of the response
dirRead(h, offset, size) ==
  IF offset >= h.dirEntryCount THEN [handle |-> h, err |-> "", Data |-> <<>>]
  ELSE LET sought == IF offset # h.currentSeek THEN readSeek(h, offset)
                     ELSE [err |-> "", handle |-> h]
       IN IF sought.err # ""
            THEN [handle |-> sought.handle, err |-> sought.err, Data |-> <<>>]
            ELSE [err |-> ""] @@ readLoop(sought.handle, size, <<>>)

\* The offset a reader continues from: the next-offset of the last entry it
\* was given, 0 before the first
NextOffset(responses) ==
  LET all == Concat(responses)
  IN IF all = <<>> THEN 0 ELSE all[Len(all)].off

\* The reader has been given an empty response: the end of the directory
AtEnd(responses) == responses # <<>> /\ responses[Len(responses)] = <<>>

\* opendir of the root directory of the mount
handleOpenRequest ==
  /\ handle = NoHandle
  /\ handle' = CreateFileHandleDir(1, openFileByName(inodeMap[1].Inode.ObjName))
  /\ UNCHANGED <<storeVars, hashVars, handleVars, raceVars, serveVars, tarVars, builder, blob, found, entry, decoded, mountVars, listing>>

\* The next Read of a reader that goes through the directory in order
handleReadRequest(size) ==
  /\ handle # NoHandle
  /\ handle.err = ""
  /\ Len(listing) < MaxReads
  /\ ~AtEnd(listing)
  /\ \E r \in {dirRead(handle, NextOffset(listing), size)} :
       /\ r.err = ""
       /\ handle' = r.handle
       /\ listing' = Append(listing, r.Data)
  /\ UNCHANGED <<storeVars, hashVars, handleVars, raceVars, serveVars, tarVars, builder, blob, found, entry, decoded, mountVars>>

\* ------------------------------------------------- the server's goroutines
\* serve() starts one goroutine for each request.  The inode table is touched
\* under inodeLock only, so each locked section is one step; a Lookup is two:
\* up to its response, and the trackInode call after it.
MaxInFlight == 2
MaxNode == 2 ^ (MaxDepth + 1)

NodeIds == 1 .. MaxNode

\* error values: a FuseError with its errno, a unix.Errno, an *os.PathError
\* around another error, an error made by errors.New
FuseError(errno) == [type |-> "FuseError", errno |-> errno]
Errno(errno)     == [type |-> "Errno", errno |-> errno]
PathError(err)   == [type |-> "PathError", Err |-> err]
ErrorsNew        == [type |-> "errorString"]

RECURSIVE WrapIOError(_)
WrapIOError(err) ==
  CASE err.type = "FuseError" -> err
    [] err.type = "PathError" -> WrapIOError(err.Err)
    [] err.type = "Errno" -> FuseError(err.errno)
    [] OTHER -> FuseError("EIO")

\* What the kernel is answered: req.Respond(...) or req.RespondError(...)
Respond(kind, node) == [kind |-> kind, errno |-> "", node |-> node]
RespondError(kind, err) == [kind |-> kind, errno |-> WrapIOError(err).errno, node |-> 0]
NoReply == [kind |-> "", errno |-> "", node |-> 0]

\* getInode: the inode of a node id, or errors.New("Unknown inode")
getInode(node) ==
  IF node \in DOMAIN inodeMap THEN [err |-> "", inode |-> inodeMap[node].Inode]
  ELSE [err |-> "Unknown inode", inode |-> ZeroEntry.Inode]

\* The request kinds of handleRequest's switch that have a handler
Supported ==
  {"Statfs", "Forget", "BatchForget", "Access", "Lookup", "Open", "Getattr",
   "Readlink", "Getxattr", "Listxattr", "Release", "Read", "Flush"}

\* Request kinds of the FUSE protocol without a handler
Unsupported == {"Poll", "Setattr", "Create", "Remove", "Write", "Ioctl", "Destroy"}

\* handleRequest for a request kind without a handler
handleRequest(kind) ==
  /\ kind \in Unsupported
  /\ reply' = RespondError(kind, IF kind = "Poll" THEN FuseError("ENOSYS") ELSE ErrorsNew)
  /\ UNCHANGED <<storeVars, hashVars, handleVars, raceVars, readVars, tarVars, builder, blob, found, entry, decoded,
                 mountVars, kernel, pending, inodeLock>>

\* unix.TestAccess on the nine permission bits of mode
TestAccess(user, group, mode, mask) ==
  LET other == mode % 8
      owner == (mode \div 64) % 8
      Or(a, b) == 4 * (IF (a \div 4) % 2 = 1 \/ (b \div 4) % 2 = 1 THEN 1 ELSE 0)
                  + 2 * (IF (a \div 2) % 2 = 1 \/ (b \div 2) % 2 = 1 THEN 1 ELSE 0)
                  + (IF a % 2 = 1 \/ b % 2 = 1 THEN 1 ELSE 0)
      And(a, b) == 4 * (IF (a \div 4) % 2 = 1 /\ (b \div 4) % 2 = 1 THEN 1 ELSE 0)
                   + 2 * (IF (a \div 2) % 2 = 1 /\ (b \div 2) % 2 = 1 THEN 1 ELSE 0)
                   + (IF a % 2 = 1 /\ b % 2 = 1 THEN 1 ELSE 0)
      withUser == IF user THEN Or(other, owner) ELSE other
      modeEffective == IF group THEN Or(withUser, owner) ELSE withUser
  IN And(mask % 8, modeEffective) = mask

\* The ids and masks of the Access requests of the model
CallerIds == {U32(1000), U32(1001)}
Masks == 1 .. 7

handleAccessRequest(node, uid, gid, mask) ==
  /\ inodeLock = "free"
  /\ node = 1 \/ kernel[node] > 0
  /\ LET got == getInode(node)
         req == [req |-> [Node |-> node, Uid |-> uid, Gid |-> gid, Mask |-> mask]]
     IN reply' =
          IF got.err # "" THEN req @@ RespondError("Access", ErrorsNew)
          ELSE IF ~TestAccess(uid = got.inode.Uid, gid = got.inode.Gid,
                              ToInt(got.inode.Mode), mask)
            THEN req @@ RespondError("Access", FuseError("EACCES"))
          ELSE req @@ Respond("Access", node)
  /\ UNCHANGED <<storeVars, hashVars, handleVars, raceVars, readVars, tarVars, builder, blob, found, entry, decoded,
                 mountVars, kernel, pending, inodeLock>>

\* handleLookupRequest up to its response; g is the goroutine.  The kernel
\* counts the node it is given; what trackInode is to be called with is kept
\* for the second step.
lookupAnswer(node, name, r) ==
  IF r.err # "" THEN [errno |-> "EIO"]
  ELSE IF r.entry = NilEntry THEN [errno |-> "ENOENT"]
  ELSE [errno |-> "", inodeId |-> childInodeId(node, r), Inode |-> r.entry.Inode]

lookupRespond(g, node, name) ==
  /\ inodeLock = "free"
  /\ g \notin DOMAIN pending
  /\ node = 1 \/ kernel[node] > 0
  /\ \E p \in paths[node] : tree[p] = "dir"
  /\ IF node \notin DOMAIN inodeMap
       THEN /\ reply' = RespondError("Lookup", ErrorsNew)
            /\ UNCHANGED <<kernel, pending, paths>>
       ELSE \E a \in {lookupAnswer(node, name,
                        LookupChild(openFileByName(inodeMap[node].Inode.ObjName), name))} :
              IF a.errno # ""
                THEN /\ reply' = RespondError("Lookup", FuseError(a.errno))
                     /\ UNCHANGED <<kernel, pending, paths>>
                ELSE /\ kernel[a.inodeId] < MaxRefs
                     /\ reply' = Respond("Lookup", a.inodeId)
                     /\ kernel' = [kernel EXCEPT ![a.inodeId] = @ + 1]
                     /\ pending' = PutKey(pending, g, a)
                     /\ paths' = PutKey(paths, a.inodeId,
                                        {Append(q, name) : q \in paths[node]}
                                          \cup (IF a.inodeId \in DOMAIN paths
                                                  THEN paths[a.inodeId] ELSE {}))
  /\ UNCHANGED <<storeVars, hashVars, handleVars, raceVars, readVars, tarVars, builder, blob, found, entry, decoded,
                 tree, objects, inodeMap, inodeLock>>

\* hm.trackInode(inodeId, &dirEntry.Inode), the last statement of the handler
lookupTrack(g) ==
  /\ inodeLock = "free"
  /\ g \in DOMAIN pending
  /\ inodeMap' = trackInode(inodeMap, pending[g].inodeId, pending[g].Inode)
  /\ pending' = RemoveKey(pending, g)
  /\ UNCHANGED <<storeVars, hashVars, handleVars, raceVars, readVars, tarVars, builder, blob, found, entry, decoded,
                 tree, objects, paths, kernel, inodeLock, reply>>

\* The body of both forget handlers for one node: the table afterwards
forgetNode(map, node, n) ==
  IF map[node].RefCount - n <= 0 THEN RemoveKey(map, node)
  ELSE [map EXCEPT ![node].RefCount = @ - n]

\* handleForgetRequest: for a node that is not in the table it returns with
\* inodeLock held.  A Forget has no reply in the protocol: req.Respond() sends
\* nothing.
handleForgetRequest(node, n) ==
  /\ inodeLock = "free"
  /\ n \in 1 .. kernel[node]
  /\ kernel' = [kernel EXCEPT ![node] = @ - n]
  /\ IF node \notin DOMAIN inodeMap
       THEN /\ inodeLock' = "held"
            /\ UNCHANGED inodeMap
       ELSE /\ inodeMap' = forgetNode(inodeMap, node, n)
            /\ UNCHANGED inodeLock
  /\ UNCHANGED <<storeVars, hashVars, handleVars, raceVars, readVars, tarVars, builder, blob, found, entry, decoded,
                 tree, objects, paths, pending, reply>>

\* The loop of handleBatchForgetRequest over req.Forget
RECURSIVE forgetAll(_, _)
forgetAll(map, forgets) ==
  IF forgets = <<>> THEN map
  ELSE forgetAll(IF Head(forgets).NodeID \in DOMAIN map
                   THEN forgetNode(map, Head(forgets).NodeID, Head(forgets).N)
                   ELSE map,
                 Tail(forgets))

\* The batches of the model: one or two nodes, each forgotten once
Batches ==
  {<<[NodeID |-> a, N |-> 1]>> : a \in NodeIds}
    \cup {<<[NodeID |-> ab[1], N |-> 1], [NodeID |-> ab[2], N |-> 1]>> :
            ab \in {x \in NodeIds \X NodeIds : x[1] # x[2]}}

handleBatchForgetRequest(forgets) ==
  /\ inodeLock = "free"
  /\ \A i \in 1 .. Len(forgets) : kernel[forgets[i].NodeID] >= forgets[i].N
  /\ kernel' = [id \in NodeIds |->
                  IF \E i \in 1 .. Len(forgets) : forgets[i].NodeID = id
                    THEN kernel[id] - 1 ELSE kernel[id]]
  /\ inodeMap' = forgetAll(inodeMap, forgets)
  /\ UNCHANGED <<storeVars, hashVars, handleVars, raceVars, readVars, tarVars, builder, blob, found, entry, decoded,
                 tree, objects, paths, pending, inodeLock, reply>>

\* ------------------------------------------ Reads on one handle, together
\* FileHandleDir has no lock: the goroutines of two Read requests for the same
\* handle share its currentSeek and the position of its nodeFile.  A Read is
\* taken in steps: up to the end of its seek, then one pass of its loop at a
\* time, the last one with the response.
MaxBatches == 2

Goroutines == 1 .. MaxInFlight

IdleRead == [pc |-> "idle", Offset |-> 0, Size |-> 0, room |-> 0, Data |-> <<>>, err |-> ""]

\* The Read requests of the model: an offset the kernel was given or 0, and a
\* buffer size
ReadRequests == [Offset : 0 .. 2, Size : ReadSizes]

\* serve: a Read request for the open handle arrives for each goroutine
serveReads(reqs) ==
  /\ handle # NoHandle
  /\ handle.err = ""
  /\ batches < MaxBatches
  /\ \A g \in Goroutines : readers[g].pc \in {"idle", "done"}
  /\ readers' = [g \in Goroutines |->
                   [pc |-> "start", Offset |-> reqs[g].Offset, Size |-> reqs[g].Size,
                    room |-> reqs[g].Size, Data |-> <<>>, err |-> ""]]
  /\ before' = handle
  /\ batches' = batches + 1
  /\ UNCHANGED <<storeVars, hashVars, handleVars, serveVars, tarVars, builder, blob, found, entry, decoded,
                 mountVars, readVars>>

\* Read up to its loop: the end-of-directory answer, or the seek when the
\* request's offset is not the cursor
readStart(g) ==
  /\ readers[g].pc = "start"
  /\ IF readers[g].Offset >= handle.dirEntryCount
       THEN /\ readers' = [readers EXCEPT ![g].pc = "done"]
            /\ UNCHANGED handle
       ELSE \E sought \in {IF readers[g].Offset # handle.currentSeek
                              THEN readSeek(handle, readers[g].Offset)
                              ELSE [err |-> "", handle |-> handle]} :
              /\ handle' = sought.handle
              /\ readers' = IF sought.err # ""
                              THEN [readers EXCEPT ![g].pc = "done", ![g].err = sought.err]
                              ELSE [readers EXCEPT ![g].pc = "loop"]
  /\ UNCHANGED <<storeVars, hashVars, handleVars, serveVars, tarVars, builder, blob, found, entry, decoded,
                 mountVars, listing, before, batches>>

\* One pass of the loop of Read on the shared handle; the pass that leaves the
\* loop writes the response
readEntry(g) ==
  /\ readers[g].pc = "loop"
  /\ \E it \in {readIteration(handle, readers[g].room, readers[g].Data)} :
       /\ handle' = it.handle
       /\ readers' = [readers EXCEPT ![g].room = it.room, ![g].Data = it.out,
                                     ![g].pc = IF it.more THEN "loop" ELSE "done"]
  /\ UNCHANGED <<storeVars, hashVars, handleVars, serveVars, tarVars, builder, blob, found, entry, decoded,
                 mountVars, listing, before, batches>>

\* ------------------------------------------------------------------- spec
Store ==
  /\ now = 0
  /\ db = EmptyDb
  /\ tx = NoTx
  /\ dataFiles = <<>>
  /\ tempFiles = [w \in Writers |-> NoBytes]
  /\ writers = [w \in Writers |-> IdleWriter]
  /\ sessions = [s \in Sessions |-> "open"]
  /\ gc = IdleGc

\* Nothing is mounted.
NoMount ==
  /\ tree = EmptyTree
  /\ objects = {}
  /\ inodeMap = <<>>
  /\ paths = <<>>

\* No archive is being imported.
NoTar ==
  /\ archive = <<>>
  /\ imported = NoImport

\* No directory is open.
NoRead ==
  /\ handle = NoHandle
  /\ listing = <<>>

\* No request has been served.
NoServe ==
  /\ kernel = [id \in NodeIds |-> 0]
  /\ pending = <<>>
  /\ inodeLock = "free"
  /\ reply = NoReply

\* No Read is being served.
NoRace ==
  /\ readers = [g \in Goroutines |-> IdleRead]
  /\ before = NoHandle
  /\ batches = 0

\* No handle is open and no request has been handled.
NoHandles ==
  /\ handleMap = <<>>
  /\ lastHandleID = 0
  /\ opening = <<>>
  /\ openFiles = 0
  /\ answers = [kind |-> "", replies |-> 0, errno |-> ""]
  /\ issued = <<>>

\* No name has been computed.
NoHashing == [deps |-> <<>>, buffer |-> NoBytes, input |-> NoBytes, name |-> NoBytes]

NoHash == hashing = NoHashing

\* No directory object is being built, looked into or decoded.
NoFs ==
  /\ builder = CreateDirBuilder
  /\ blob = NoBytes
  /\ found = NoLookup
  /\ entry = ZeroEntry
  /\ decoded = NoDecode
  /\ NoMount
  /\ NoTar
  /\ NoRead
  /\ NoServe
  /\ NoRace
  /\ NoHandles
  /\ NoHash

\* A new store and its sessions; nothing fails.
Init == Store /\ faults = 0 /\ NoFs

\* The same, in an environment that may crash a process or fail an I/O call.
InitFault == Store /\ faults = MaxFaults /\ NoFs

Buffers == {<<>>} \cup {<<b>> : b \in Bytes}

WriterNext ==
  \/ \E w \in Writers, buffer \in Buffers, deps \in DepLists :
       \E cap \in Len(buffer) .. MaxCap :
         createObjectStreamWithBuffer(w, SessionOf(w), buffer, cap, deps)
  \/ \E w \in Writers, b \in Bytes : Write(w, <<b>>)
  \/ \E w \in Writers : CloseInsertTemp(w)
  \/ \E w \in Writers : CloseBegin(w)
  \/ \E w \in Writers : CloseCommit(w)

GcSteps ==
  \/ collectObjects
  \/ collectTempObjectsBegin
  \/ collectTempObjectsRemove
  \/ collectTempObjectsCommit

GcNext ==
  \/ \E iterations \in 0 .. MaxBudget : GarbageCollect(iterations)
  \/ GcSteps

SessionNext ==
  \/ \E s \in Sessions : SessionClose(s)
  \/ \E s \in Sessions, key \in LabelKeys, name \in KnownNames \cup {NoName} :
       SetLabel(s, key, name)
  \/ \E s \in Sessions, key \in LabelKeys : GetLabel(s, key)

FaultNext ==
  \/ \E w \in Writers : CloseSyncFail(w)
  \/ collectTempObjectsFail
  \/ \E w \in Writers : CrashWriter(w)
  \/ CrashGc

\* ------------------------------------------------- a store found on disk
\* GarbageCollect on a store that earlier sessions left behind: up to
\* MaxObjects objects with dependency edges from later to earlier objects, the
\* label on one of them or on none, ref_count = edges in + labels (the
\* reference count rule of CONSISTENCY.md), every data file in place, every
\* session closed.  Object i holds i - 1 bytes.
StoredContent(i) == [j \in 1 .. (i - 1) |-> 1]

RECURSIVE StoredName(_, _)
RECURSIVE StoredDeps(_, _, _)
StoredDeps(i, edges, c) ==
  IF c >= i THEN <<>>
  ELSE (IF <<i, c>> \in edges THEN <<StoredName(c, edges)>> ELSE <<>>)
         \o StoredDeps(i, edges, c + 1)
StoredName(i, edges) ==
  LET deps == SortDeps(StoredDeps(i, edges, 1))
  IN NameOfHash(Len(deps), deps, StoredContent(i))

StoredDb(n, edges, label, lease) ==
  [objects       |-> {[id |-> i, name |-> StoredName(i, edges),
                       ref_count |-> Cardinality({e \in edges : e[2] = i})
                                       + (IF label = i THEN 1 ELSE 0),
                       lease_time |-> lease[i]] : i \in 1 .. n},
   object_deps   |-> {[id |-> (e[1] - 1) * MaxObjects + e[2],
                       parent_id |-> e[1], child_id |-> e[2]] : e \in edges},
   labels        |-> [k \in LabelKeys |-> label],
   temp_objects  |-> {},
   lastObjectId  |-> n,
   lastDepId     |-> MaxObjects * MaxObjects,
   lastTempObjId |-> 0,
   temp_tables   |-> {}]

InitGc ==
  /\ now \in 0 .. MaxTime
  /\ \E n \in 0 .. MaxObjects :
     \E edges \in SUBSET {<<p, c>> \in (1 .. n) \X (1 .. n) : c < p} :
     \E label \in 0 .. n :
     \E lease \in [1 .. n -> 0 .. MaxTime] :
       /\ db = StoredDb(n, edges, label, lease)
       /\ dataFiles = [name \in {StoredName(i, edges) : i \in 1 .. n} |-> name[3]]
  /\ tx = NoTx
  /\ tempFiles = [w \in Writers |-> NoBytes]
  /\ writers = [w \in Writers |-> IdleWriter]
  /\ sessions = [s \in Sessions |-> "closed"]
  /\ gc = IdleGc
  /\ faults = 0
  /\ NoFs

\* The same kind of store where a parent may name a child up to MaxDup times:
\* Close adds an edge and an increment for every element of ow.deps.  mult
\* gives the number of edges from a later object to an earlier one.
MaxDup == 2

StoredPairs(n) == {pc \in (1 .. n) \X (1 .. n) : pc[2] < pc[1]}

RECURSIVE StoredDupName(_, _)
RECURSIVE StoredDupDeps(_, _, _)
StoredDupDeps(i, mult, c) ==
  IF c >= i THEN <<>>
  ELSE [k \in 1 .. mult[<<i, c>>] |-> StoredDupName(c, mult)]
         \o StoredDupDeps(i, mult, c + 1)
StoredDupName(i, mult) ==
  LET deps == SortDeps(StoredDupDeps(i, mult, 1))
  IN NameOfHash(Len(deps), deps, StoredContent(i))

StoredDupDb(n, mult, label, lease) ==
  LET rows == {e \in StoredPairs(n) \X (1 .. MaxDup) : e[2] <= mult[e[1]]}
  IN [objects       |-> {[id |-> i, name |-> StoredDupName(i, mult),
                          ref_count |-> Cardinality({e \in rows : e[1][2] = i})
                                          + (IF label = i THEN 1 ELSE 0),
                          lease_time |-> lease[i]] : i \in 1 .. n},
      object_deps   |-> {[id |-> ((e[1][1] - 1) * MaxObjects + e[1][2] - 1) * MaxDup + e[2],
                          parent_id |-> e[1][1], child_id |-> e[1][2]] : e \in rows},
      labels        |-> [k \in LabelKeys |-> label],
      temp_objects  |-> {},
      lastObjectId  |-> n,
      lastDepId     |-> MaxDup * MaxObjects * MaxObjects,
      lastTempObjId |-> 0,
   temp_tables   |-> {}]

InitGcDup ==
  /\ now \in 0 .. MaxTime
  /\ \E n \in 0 .. MaxObjects :
     \E mult \in [StoredPairs(n) -> 0 .. MaxDup] :
     \E label \in 0 .. n :
     \E lease \in [1 .. n -> 0 .. MaxTime] :
       /\ db = StoredDupDb(n, mult, label, lease)
       /\ dataFiles = [name \in {StoredDupName(i, mult) : i \in 1 .. n} |-> name[3]]
  /\ tx = NoTx
  /\ tempFiles = [w \in Writers |-> NoBytes]
  /\ writers = [w \in Writers |-> IdleWriter]
  /\ sessions = [s \in Sessions |-> "closed"]
  /\ gc = IdleGc
  /\ faults = 0
  /\ NoFs

\* GarbageCollect calls, a negative `iterations` among them, and nothing else.
NextGc ==
  \/ \E iterations \in -1 .. MaxBudget : GarbageCollect(iterations)
  \/ GcSteps

Next == WriterNext \/ GcNext \/ SessionNext \/ Tick

NextFault == WriterNext \/ GcNext \/ FaultNext

Spec == Init /\ [][Next]_vars

\* Writers and GC under crashes and I/O failures.
SpecFault == InitFault /\ [][NextFault]_vars

\* The same where GarbageCollect keeps being run and no process stands still
\* for ever in the middle of a call.
SpecFaultFair == SpecFault /\ WF_vars(GcNext) /\ WF_vars(WriterNext)

\* The garbage collector alone on a store found on disk.
SpecGc == InitGc /\ [][NextGc]_vars

\* The same on a store with repeated dependency edges.
SpecGcDup == InitGcDup /\ [][NextGc]_vars

\* A directory object: entries inserted into a builder, Build, then lookups.
NextDir ==
  \/ \E fileName \in FileNames, inode \in Inodes, treeSize \in 1 .. MaxTreeSize :
       DirInsert(fileName, inode, U64(treeSize))
  \/ DirBuild
  \/ \E name \in FileNames \cup {<<>>} : DirLookup(name)

SpecDir == Init /\ [][NextDir]_vars

\* One directory entry, encoded and decoded again.
InitCodec ==
  /\ Store
  /\ faults = 0
  /\ builder = CreateDirBuilder
  /\ blob = NoBytes
  /\ found = NoLookup
  /\ entry \in Entries
  /\ decoded = NoDecode
  /\ NoMount
  /\ NoTar
  /\ NoRead
  /\ NoServe
  /\ NoRace
  /\ NoHandles
  /\ NoHash

NextCodec == EntryEncode \/ EntryDecode

SpecCodec == InitCodec /\ [][NextCodec]_vars

\* A tree imported with ImportPath and mounted: lookups from the kernel.
InitMount ==
  /\ Store
  /\ faults = 0
  /\ builder = CreateDirBuilder
  /\ blob = NoBytes
  /\ found = NoLookup
  /\ entry = ZeroEntry
  /\ decoded = NoDecode
  /\ tree \in Trees
  /\ LET root == importDirectory(tree, <<>>)
     IN /\ objects = root.objects
        /\ inodeMap = CreateServer(root.name)
  /\ paths = [id \in {1} |-> {<<>>}]
  /\ NoTar
  /\ NoRead
  /\ NoServe
  /\ NoRace
  /\ NoHandles
  /\ NoHash

NextMount ==
  \E node \in 1 .. (2 ^ (MaxDepth + 1)), name \in TreeNames \cup {<<>>} :
    handleLookupRequest(node, name)

SpecMount == InitMount /\ [][NextMount]_vars

\* An archive imported with ImportTar.
InitTar ==
  /\ Store
  /\ faults = 0
  /\ builder = CreateDirBuilder
  /\ blob = NoBytes
  /\ found = NoLookup
  /\ entry = ZeroEntry
  /\ decoded = NoDecode
  /\ NoMount
  /\ archive \in Archives
  /\ imported = NoImport
  /\ NoRead
  /\ NoServe
  /\ NoRace
  /\ NoHandles
  /\ NoHash

NextTar == tarImport

SpecTar == InitTar /\ [][NextTar]_vars

\* A reader going through the root directory of a mounted tree.
NextReaddir ==
  \/ handleOpenRequest
  \/ \E size \in ReadSizes : handleReadRequest(size)

SpecReaddir == InitMount /\ [][NextReaddir]_vars

\* The server answering the kernel's Lookup and Forget requests, each in its
\* own goroutine.
NextServe ==
  \/ \E g \in 1 .. MaxInFlight, node \in NodeIds, name \in TreeNames :
       lookupRespond(g, node, name)
  \/ \E g \in 1 .. MaxInFlight : lookupTrack(g)
  \/ \E node \in NodeIds, n \in 1 .. MaxRefs : handleForgetRequest(node, n)
  \/ \E forgets \in Batches : handleBatchForgetRequest(forgets)

\* The tree behind the mount the requests go to: a file, and a directory
\* holding a file
ServeTree ==
  [p \in {<<>>, <<<<98>>>>, <<<<97>>>>, <<<<97>>, <<98>>>>} |->
     IF Len(p) = 0 \/ p = <<<<97>>>> THEN "dir" ELSE "reg"]

InitServe == InitMount /\ tree = ServeTree

SpecServe == InitServe /\ [][NextServe]_vars

\* The server answering Access requests and requests it has no handler for.
NextRequests ==
  \/ \E node \in NodeIds, name \in TreeNames : lookupRespond(1, node, name)
  \/ lookupTrack(1)
  \/ \E node \in NodeIds, uid \in CallerIds, gid \in CallerIds, mask \in Masks :
       handleAccessRequest(node, uid, gid, mask)
  \/ \E kind \in Unsupported : handleRequest(kind)

SpecRequests == InitServe /\ [][NextRequests]_vars

\* Two Read requests at a time on the open root directory of a mounted tree.
NextRace ==
  \/ handleOpenRequest
  \/ \E reqs \in [Goroutines -> ReadRequests] : serveReads(reqs)
  \/ \E g \in Goroutines : readStart(g)
  \/ \E g \in Goroutines : readEntry(g)

SpecRace == InitServe /\ [][NextRace]_vars

\* ------------------------------------------------------- the handle table
\* Open, Release, Lookup, Getattr and Flush with the files they open, the
\* handle table and the replies they give.  An Open is two steps: the handle
\* is created, then registered under handleLock and answered.
MaxHandles == 3
MaxOpenFiles == 4

\* req.Respond(...) once, req.RespondError(...) once by handleRequest, or the
\* handler returning nil without a reply
Answered(kind)        == [kind |-> kind, replies |-> 1, errno |-> ""]
AnsweredError(kind, err) == [kind |-> kind, replies |-> 1, errno |-> WrapIOError(err).errno]
Unanswered(kind)      == [kind |-> kind, replies |-> 0, errno |-> ""]

\* CreateFileHandleReg: the blob's file
CreateFileHandleReg(inodeId, data) == [err |-> "", nodeFile |-> data, inodeId |-> inodeId]

\* openHandle taking the lowest id no open handle has
openHandleLowestFree(map, last, h) ==
  LET handleID == CHOOSE i \in 1 .. last + 1 :
                    i \notin DOMAIN map /\ \A j \in 1 .. i - 1 : j \in DOMAIN map
  IN [handleMap |-> PutKey(map, handleID, h), lastHandleID |-> Max(last, handleID),
      handleID |-> handleID]

\* openHandle under handleLock: the next id, and the table with the handle
\* under it
openHandle(map, last, h) ==
  LET handleID == last + 1
  IN [handleMap |-> PutKey(map, handleID, h), lastHandleID |-> handleID,
      handleID |-> handleID]

\* handleOpenRequest up to openHandle, in goroutine g: the file of the node's
\* blob is opened and the handle made.  The "Unknown directory format" return
\* of CreateFileHandleDir leaves its file open.
openCreate(g, node) ==
  /\ g \notin DOMAIN opening
  /\ node \in DOMAIN inodeMap
  /\ openFiles < MaxOpenFiles
  /\ lastHandleID + Cardinality(DOMAIN opening) < MaxHandles
  /\ LET inode == getInode(node).inode
         data == openFileByName(inode.ObjName)
     IN IF S_ISDIR(inode.Mode)
          THEN \E h \in {CreateFileHandleDir(node, data)} :
                 IF h.err = ""
                   THEN /\ opening' = PutKey(opening, g, h)
                        /\ openFiles' = openFiles + 1
                        /\ UNCHANGED answers
                   ELSE /\ answers' = AnsweredError("Open", ErrorsNew)
                        /\ openFiles' = IF h.err = "Unknown directory format"
                                          THEN openFiles + 1 ELSE openFiles
                        /\ UNCHANGED opening
        ELSE IF S_ISREG(inode.Mode)
          THEN /\ opening' = PutKey(opening, g, CreateFileHandleReg(node, data))
               /\ openFiles' = openFiles + 1
               /\ UNCHANGED answers
        ELSE /\ answers' = AnsweredError("Open", ErrorsNew)
             /\ UNCHANGED <<opening, openFiles>>
  /\ UNCHANGED <<storeVars, hashVars, raceVars, serveVars, readVars, tarVars, builder, blob, found, entry,
                 decoded, mountVars, handleMap, lastHandleID, issued>>

\* The rest of handleOpenRequest: openHandle, then the OpenResponse with the id
openRespond(g) ==
  /\ g \in DOMAIN opening
  /\ \E r \in {openHandle(handleMap, lastHandleID, opening[g])} :
       /\ handleMap' = r.handleMap
       /\ lastHandleID' = r.lastHandleID
       /\ issued' = Append(issued, r.handleID)
  /\ opening' = RemoveKey(opening, g)
  /\ answers' = Answered("Open")
  /\ UNCHANGED <<storeVars, hashVars, raceVars, serveVars, readVars, tarVars, builder, blob, found, entry,
                 decoded, mountVars, openFiles>>

\* handleReleaseRequest of a handle the kernel holds: the handle leaves the
\* table under handleLock, and its Release closes nodeFile and returns what
\* Close returned
handleReleaseRequest(h) ==
  /\ h \in DOMAIN handleMap
  /\ handleMap' = RemoveKey(handleMap, h)
  /\ IF h \notin DOMAIN handleMap
       THEN /\ answers' = AnsweredError("Release", FuseError("EBADF"))
            /\ UNCHANGED openFiles
       ELSE /\ openFiles' = openFiles - 1
            /\ answers' = Unanswered("Release")
  /\ UNCHANGED <<storeVars, hashVars, raceVars, serveVars, readVars, tarVars, builder, blob, found, entry,
                 decoded, mountVars, lastHandleID, opening, issued>>

\* handleLookupRequest with the file it opens: nodeFile is opened by
\* openFileByName, searched, and the handler returns
lookupOpenFile(node, name) ==
  /\ node \in DOMAIN inodeMap
  /\ S_ISDIR(inodeMap[node].Inode.Mode)
  /\ openFiles < MaxOpenFiles
  /\ \E r \in {LookupChild(openFileByName(inodeMap[node].Inode.ObjName), name)} :
       /\ trackLookup(node, name, r, childInodeId(node, r))
       /\ answers' = IF r.err # "" THEN AnsweredError("Lookup", ErrorsNew)
                     ELSE IF r.entry = NilEntry
                       THEN AnsweredError("Lookup", FuseError("ENOENT"))
                     ELSE Answered("Lookup")
  /\ openFiles' = openFiles + 1
  /\ UNCHANGED <<storeVars, hashVars, raceVars, serveVars, readVars, tarVars, builder, blob, entry,
                 decoded, tree, objects, handleMap, lastHandleID, opening, issued>>

handleGetattrRequest(node) ==
  /\ node \in NodeIds
  /\ answers' = IF getInode(node).err # "" THEN AnsweredError("Getattr", ErrorsNew)
                ELSE Answered("Getattr")
  /\ UNCHANGED <<storeVars, hashVars, raceVars, serveVars, readVars, tarVars, builder, blob, found, entry,
                 decoded, mountVars, handleMap, lastHandleID, opening, openFiles, issued>>

handleFlushRequest ==
  /\ answers' = Answered("Flush")
  /\ UNCHANGED <<storeVars, hashVars, raceVars, serveVars, readVars, tarVars, builder, blob, found, entry,
                 decoded, mountVars, handleMap, lastHandleID, opening, openFiles, issued>>

NextHandles ==
  \/ \E g \in Goroutines : \E node \in NodeIds : openCreate(g, node)
  \/ \E g \in Goroutines : openRespond(g)
  \/ \E h \in 1 .. MaxHandles : handleReleaseRequest(h)
  \/ \E node \in NodeIds : \E name \in TreeNames : lookupOpenFile(node, name)
  \/ \E node \in NodeIds : handleGetattrRequest(node)
  \/ handleFlushRequest

SpecHandles == InitServe /\ [][NextHandles]_vars

\* ------------------------------------------------------- names of blobs
\* Names are NameSize bytes.  The three of the model differ in their first and
\* last bytes, so that byte order is not the order they are listed in.
MaxDeps == 3

HashNames ==
  {[i \in 1 .. NameSize |-> IF i = 1 THEN b[1] ELSE IF i = NameSize THEN b[2] ELSE 0] :
     b \in {<<0, 0>>, <<0, 1>>, <<1, 0>>}}

HashDeps == UNION {[1 .. k -> HashNames] : k \in 0 .. MaxDeps}

\* Contents: empty, short, and ones that begin with the bytes of a name or
\* of a count
HashContents ==
  {h \o t : h \in {<<>>} \cup HashNames, t \in {<<>>, <<1>>, <<0, 0, 0, 1>>}}

\* CreateObject(buffer, deps...) as far as the name: what is hashed, and the sum
hashObject(buffer, deps) ==
  /\ hashing' = [deps |-> deps, buffer |-> buffer,
                 input |-> HashedInput(buffer, deps),
                 name |-> ObjectName(buffer, deps)]
  /\ UNCHANGED <<storeVars, handleVars, raceVars, serveVars, readVars, tarVars, mountVars,
                 builder, blob, found, entry, decoded>>

NextHash == \E buffer \in HashContents : \E deps \in HashDeps : hashObject(buffer, deps)

SpecHash == Init /\ [][NextHash]_vars

\* ------------------------------------------------------------- properties
\* What references an object row: edges that name it as child, labels on it.
\* The lease design keeps no session rows, so no session holds an object.
DepRefs(d, id)   == Cardinality({e \in d.object_deps : e.child_id = id})
LabelRefs(d, id) == Cardinality({k \in LabelKeys : d.labels[k] = id})
Labelled(d, id)  == \E k \in LabelKeys : d.labels[k] = id
HasObject(d, id) == \E o \in d.objects : o.id = id
TempObjectNames(d) == {t.name : t \in d.temp_objects}

\* Ids reachable from a labelled object along object_deps edges.
RECURSIVE ReachableFrom(_, _)
ReachableFrom(d, ids) ==
  LET more == ids \cup {e.child_id : e \in {x \in d.object_deps : x.parent_id \in ids}}
  IN IF more = ids THEN ids ELSE ReachableFrom(d, more)
LabelReachable(d) == ReachableFrom(d, {d.labels[k] : k \in LabelKeys} \ {0})

\* C1: in every committed state, under any interleaving of Writer.Close and
\* GarbageCollect and after a crash or an I/O failure at any step, every objects
\* row has its data file present under data/.
C1_ObjectImpliesData ==
  \A o \in db.objects : o.name \in DOMAIN dataFiles

\* C2: after every committed operation each object's ref_count equals the
\* number of object_deps rows with it as child plus the number of labels rows
\* that target it plus the session holds on it (none: sessions keep no rows).
C2_RefCountIsReferences ==
  \A o \in db.objects : o.ref_count = DepRefs(db, o.id) + LabelRefs(db, o.id)

\* C3: no step removes an object that is the target of a label, or the child
\* of an object_deps edge whose parent is still there after the step, or that
\* is reachable along dependency edges from a labelled object; sessions may
\* open and close in between.
C3_GcKeepsReferenced ==
  [][\A o \in db.objects :
       (\/ Labelled(db, o.id)
        \/ \E e \in db.object_deps : e.child_id = o.id /\ HasObject(db', e.parent_id)
        \/ o.id \in LabelReachable(db))
       => HasObject(db', o.id)]_vars

\* A GarbageCollect call is past collectObjects; a labelled parent and its
\* child, both with an expired lease, are still rows, and a session has closed.
C3_Witness ==
  /\ gc.pc = "loop" /\ gc.ci = 2
  /\ \E s \in Sessions : sessions[s] = "closed"
  /\ \E e \in db.object_deps :
       /\ Labelled(db, e.parent_id)
       /\ \A o \in db.objects :
            o.id \in {e.parent_id, e.child_id} => o.lease_time < now
       /\ HasObject(db, e.parent_id) /\ HasObject(db, e.child_id)

\* C4: in every committed state, under any interleaving of Writer.Close and
\* GarbageCollect and after a crash at any step of Writer.Close, every file
\* under data/ is named by an objects row or by a temp_objects row.
C4_DataFileTracked ==
  tx = NoTx =>
    \A name \in DOMAIN dataFiles : name \in ObjectNames(db) \cup TempObjectNames(db)

RowsNamed(d, name) == {o \in d.objects : o.name = name}
RefCountOf(d, id) == (CHOOSE o \in d.objects : o.id = id).ref_count

\* C6: when two sessions create an object from identical bytes and identical
\* dependencies, in sequence or concurrently, both calls succeed and return the
\* same name, and the store has exactly one objects row and one data file for
\* it.  With no failure injected, a create fails only on a dependency that
\* does not exist.
C6_IdenticalObjectsDeduplicate ==
  /\ \A w \in Writers :
       writers[w].pc = "failed" =>
         \E i \in DOMAIN writers[w].sum[2] : writers[w].sum[2][i] = MissingName
  /\ \A w1 \in Writers, w2 \in Writers :
       (/\ w1 # w2
        /\ writers[w1].pc = "done" /\ writers[w2].pc = "done"
        /\ writers[w1].sum = writers[w2].sum)
       => /\ writers[w1].name = writers[w2].name
          /\ writers[w1].name = writers[w1].sum
          /\ Cardinality(RowsNamed(db, writers[w1].name)) = 1
          /\ writers[w1].name \in DOMAIN dataFiles
          /\ dataFiles[writers[w1].name] = writers[w1].name[3]

\* Two writers of different sessions have both returned from Close with the
\* same name.
C6_Witness ==
  \E w1 \in Writers, w2 \in Writers :
    /\ writers[w1].session # writers[w2].session
    /\ writers[w1].pc = "done" /\ writers[w2].pc = "done"
    /\ writers[w1].name = writers[w2].name
    /\ writers[w1].name # NoName

\* C7: a Close that fails after BEGIN IMMEDIATE (missing dependency, temp-file
\* creation, fsync, a rename failure of any kind) commits no objects row, no
\* object_deps row and no ref_count change, and Close returns an error only
\* then: a Close that returns a name has its objects row committed.
C7_FailedCloseRollsBack ==
  [][\A w \in Writers :
       /\ (writers[w].pc \in {"temp", "commit"} /\ writers'[w].pc = "failed")
            => (db'.objects = db.objects /\ db'.object_deps = db.object_deps)
       /\ (writers[w].pc = "commit" /\ writers'[w].pc = "done")
            => RowsNamed(db', writers'[w].name) # {}]_vars

\* C8: every file at a final path under data/ holds exactly the bytes written
\* to the Writer of the object of that name, in order, also when the content
\* spilled from the buffer to a temp file and after a crash in Write or Close:
\* the file's bytes are the content the name was computed over.
C8_DataFileIsContent ==
  \A name \in DOMAIN dataFiles : dataFiles[name] = name[3]

Unreferenced(d, o) == DepRefs(d, o.id) = 0 /\ LabelRefs(d, o.id) = 0
Collectable(d) == {o \in d.objects : o.ref_count = 0 /\ o.lease_time < now}

\* A step of the collectObjects collector / the step GarbageCollect returns on.
InCollectObjects == gc.pc = "loop" /\ collectors[gc.ci] = "collectObjects" /\ gc' # gc
GcReturns == gc.pc # "idle" /\ gc'.pc = "idle"

\* C11: an object whose label has been deleted (no label and no parent names
\* it), whose lease has expired and whose sessions are closed is removed from
\* the objects table by the GarbageCollect run to completion that follows.
C11_GcRemovesUnlabelled ==
  [][(/\ InCollectObjects
      /\ gc.iterations <= 0
      /\ \A s \in Sessions : sessions[s] = "closed")
     => \A o \in db.objects :
          (Unreferenced(db, o) /\ o.lease_time < now) => ~HasObject(db', o.id)]_vars

\* C12: when GarbageCollect with an unlimited budget (iterations <= 0) returns
\* complete = true and nothing else touched the store, no object with
\* ref_count 0 and an expired lease is left, the objects whose ref_count fell
\* to 0 when their parent was deleted in the same call included.
C12_UnlimitedGcLeavesNone ==
  [][(GcReturns /\ gc.iterations <= 0 /\ gc'.result = "complete")
     => \A o \in db'.objects : ~(o.ref_count = 0 /\ o.lease_time < now)]_vars

\* An unlimited call has deleted objects in an earlier pass of collectObjects
\* and an object with ref_count 0 and an expired lease is there for the next:
\* one whose parent that pass deleted.
C12_Witness ==
  /\ gc.pc = "loop" /\ collectors[gc.ci] = "collectObjects"
  /\ gc.iterations <= 0
  /\ gc.work > 0
  /\ Collectable(db) # {}

OrphanTempFile(w) ==
  writers[w].pc \in {"crashed", "failed"} /\ tempFiles[w] # NoBytes

\* C13: a temp file left under temp/ by a Writer that crashed or failed before
\* publishing is unlinked within a bounded number of GarbageCollect runs: where
\* GarbageCollect keeps being run, the file is gone at some point.
C13_OrphanTempFileReclaimed ==
  \A w \in Writers : OrphanTempFile(w) ~> (tempFiles[w] = NoBytes)

\* ------------------------------------------------- directory objects
\* The entry the builder holds for an inserted name
Inserted(name) ==
  CHOOSE e \in {builder.DirEntries[i] : i \in 1 .. Len(builder.DirEntries)} :
    e.FileName = name

\* LookupChild has returned for the name it was asked for
Looked == blob # NoBytes /\ found.name # NoBytes

\* Some other inserted name has the CRC32 of `name`
Collides(name) ==
  \E other \in BuilderNames :
    other # name /\ ChecksumIEEE(other) = ChecksumIEEE(name)

\* C16: on the blob Build made of entries with distinct names, LookupChild
\* returns for an inserted name an entry with the inserted file name and inode,
\* and nil with no error for a name that was not inserted, a name with the CRC32
\* of an inserted one and the empty directory included.
C16_LookupReturnsInserted ==
  Looked =>
    /\ found.err = ""
    /\ IF found.name \in BuilderNames
         THEN /\ found.entry.FileName = found.name
              /\ found.entry.Inode = Inserted(found.name).Inode
         ELSE found.entry = NilEntry

\* C17: where inserted file names share a CRC32, LookupChild returns for each
\* of them the entry with that file name, in either order of the two in the
\* index.
C17_CollidingNamesFound ==
  (Looked /\ found.name \in BuilderNames /\ Collides(found.name)) =>
    /\ found.err = ""
    /\ found.entry.FileName = found.name

\* C19: decoding the bytes Encode made of an entry gives, with no error, an
\* entry equal to the encoded one field for field, for an inode of any file
\* type with or without an object name.
C19_EncodeDecodeRoundTrip ==
  decoded # NoDecode => (decoded.err = "" /\ decoded.de = entry)

\* The nodes of the tree at and below p
SubtreeSize(t, p) ==
  Cardinality({q \in DOMAIN t : Len(q) >= Len(p) /\ SubSeq(q, 1, Len(p)) = p})

\* C18: within one mounted tree the node ids parent node id + ParentDepIndex
\* (root = 1) are pairwise distinct: every node id the server tracks was
\* reached for one path of the tree only, and the root's id 1 for no path but
\* the root.
C18_NodeIdsDistinct ==
  \A id \in DOMAIN paths :
    /\ Cardinality(paths[id]) = 1
    /\ (<<>> \in paths[id]) <=> (id = 1)

C18_Witness ==
  /\ Cardinality(DOMAIN paths) = MaxPaths
  /\ \E id \in DOMAIN paths : \E p \in paths[id] : Len(p) = MaxDepth
  /\ \E id \in DOMAIN paths : \E p \in paths[id] :
       /\ Len(p) = 1
       /\ tree[p] = "reg"
       /\ ULess(U64(2), U64(id))

\* C20: the entry LookupChild returns for an imported child carries the
\* child's subtree size in TreeSize: 1 for a regular file or an empty
\* directory, 1 plus the subtree sizes of the children for a directory.
C20_LookupTreeSize ==
  [][\A node \in DOMAIN inodeMap, name \in TreeNames :
       (handleLookupRequest(node, name) /\ found'.err = "" /\ found'.entry # NilEntry)
         => \A q \in paths[node] :
              found'.entry.TreeSize = U64(SubtreeSize(tree, Append(q, name)))]_vars

\* The entries the directories of the import hold as children
InTarTree(i) ==
  \E p \in DOMAIN imported.dirEntries :
    \E n \in DOMAIN imported.entries[imported.dirEntries[p]].children :
      imported.entries[imported.dirEntries[p]].children[n] = i

\* C21: after a tar import completes, the inode metadata of every hard-link
\* entry (mode, owner, times, size, object name) equals that of the entry its
\* link name refers to, whatever the order of the entries in the archive.
C21_HardlinkInodeEqualsTarget ==
  imported.err = "" =>
    \A k \in 1 .. Len(imported.hardlinks) :
      LET hardlink == imported.hardlinks[k]
          target == linkTarget(imported, hardlink.linkname)
      IN InTarTree(hardlink.fileEntry) =>
           /\ target # -1
           /\ imported.entries[hardlink.fileEntry].inode = imported.entries[target].inode

\* A completed import of a link that comes before its target in the archive,
\* and of a link to a link.
C21_Witness ==
  /\ imported.err = ""
  /\ \E k \in 1 .. Len(imported.hardlinks) :
       LET hardlink == imported.hardlinks[k]
           target == linkTarget(imported, hardlink.linkname)
       IN /\ InTarTree(hardlink.fileEntry)
          /\ hardlink.fileEntry < target
          /\ archive[target].Typeflag = "reg"
          /\ imported.entries[hardlink.fileEntry].inode.ObjName # NoBytes

\* The file names of a directory object in index order
DirNames(data) ==
  [i \in 1 .. ToInt(Uint32(data, 4)) |->
     DecodeStream(ZeroEntry, data, Seek(Uint32(data, 16 + 8 * (i - 1)))).de.FileName]

\* The file names the reader was given, in the order it was given them
ListedNames == [i \in 1 .. Len(Concat(listing)) |-> Concat(listing)[i].name]

\* C22: successive Reads of a directory handle, each from the next-offset of
\* the last entry returned, give every entry exactly once and in index order
\* whatever the buffer sizes: what was given so far is the start of the
\* directory, and all of it once the end is reported.
C22_ReadYieldsEveryEntryOnce ==
  handle # NoHandle =>
    /\ Len(ListedNames) <= Len(DirNames(handle.nodeFile))
    /\ ListedNames = SubSeq(DirNames(handle.nodeFile), 1, Len(ListedNames))
    /\ AtEnd(listing) => ListedNames = DirNames(handle.nodeFile)

\* C23: after any sequence of Lookup, Forget and BatchForget requests (every
\* handler has returned), a node id other than the root is in the inode table
\* with ref count k > 0 exactly when the Lookup responses that returned it
\* minus the forget deltas received for it are k, and absent when that is 0;
\* the root, node id 1, is in the table from mount time.
C23_RefCountMatchesLookups ==
  pending = <<>> =>
    /\ 1 \in DOMAIN inodeMap
    /\ \A id \in NodeIds \ {1} :
         /\ (id \in DOMAIN inodeMap) <=> (kernel[id] > 0)
         /\ id \in DOMAIN inodeMap => inodeMap[id].RefCount = kernel[id]

\* C26: for every successful Lookup the child node is in the inode table
\* before the response is written to the kernel: a node the kernel holds a
\* response for, and has not forgotten, is tracked.
C26_TrackedBeforeResponse ==
  \A id \in NodeIds \ {1} : kernel[id] > 0 => id \in DOMAIN inodeMap

\* C27: every handler that takes the inode-table lock releases it on every
\* return path, a Forget for a node id that is not in the table included: no
\* handler has returned with the lock held.
C27_LockReleased == inodeLock = "free"

\* C24: a request of a kind the server does not support is answered with
\* errno ENOSYS.
C24_UnsupportedIsENOSYS == reply.kind \in Unsupported => reply.errno = "ENOSYS"

\* The POSIX mode check: the owner bits for the file's owner, otherwise the
\* group bits for a caller of the file's group, otherwise the other bits, and
\* every requested bit must be among them.
PosixAllows(inode, uid, gid, mask) ==
  LET mode == ToInt(inode.Mode)
      bits == IF uid = inode.Uid THEN (mode \div 64) % 8
              ELSE IF gid = inode.Gid THEN (mode \div 8) % 8
              ELSE mode % 8
  IN \A b \in {1, 2, 4} : (mask \div b) % 2 = 1 => (bits \div b) % 2 = 1

\* C25: Access(node, mask) is granted exactly when the POSIX mode check
\* against the stored uid, gid and mode allows it, and is denied with EACCES
\* otherwise.
C25_AccessIsPosixCheck ==
  (reply.kind = "Access" /\ reply.errno \in {"", "EACCES"}) =>
    LET req == reply.req
    IN (reply.errno = "") <=>
         PosixAllows(inodeMap[req.Node].Inode, req.Uid, req.Gid, req.Mask)

\* What the two Reads answer and leave behind when goroutine f runs its Read
\* to the end before goroutine s begins
SerialReads(f, s) ==
  LET r1 == dirRead(before, readers[f].Offset, readers[f].Size)
      r2 == dirRead(r1.handle, readers[s].Offset, readers[s].Size)
  IN [first |-> r1.Data, second |-> r2.Data, handle |-> r2.handle]

\* C28: two Read requests served at the same time on one directory handle
\* answer, and leave the cursor and the file position, as if one had run after
\* the other.
C28_ReadsSerialised ==
  (\A g \in Goroutines : readers[g].pc = "done")
    => \E f \in Goroutines, s \in Goroutines :
         /\ f # s
         /\ readers[f].Data = SerialReads(f, s).first
         /\ readers[s].Data = SerialReads(f, s).second
         /\ handle = SerialReads(f, s).handle

\* C29: a file appears in data/ only in a step after which the Writer that
\* renamed it holds the write transaction it began, and a file leaves data/
\* only in a step of the temp-object collector that holds the write transaction
\* before and after it.
C29_DataChangesInsideTx ==
  [][/\ \A n \in DOMAIN dataFiles' \ DOMAIN dataFiles :
          \E w \in Writers : /\ tx'.owner = <<"writer", w>>
                             /\ writers'[w].pc = "commit"
                             /\ writers'[w].sum = n
     /\ \A n \in DOMAIN dataFiles \ DOMAIN dataFiles' :
          /\ tx.owner = <<"gc", 0>>
          /\ tx'.owner = <<"gc", 0>>
          /\ gc.pc = "temp"
     /\ \A n \in DOMAIN dataFiles \cap DOMAIN dataFiles' :
          dataFiles'[n] = dataFiles[n]]_vars

\* A Writer has renamed its file into data/ and has not committed: the file is
\* there, the objects row is not yet.
C29_Witness ==
  \E w \in Writers :
    /\ tx.owner = <<"writer", w>>
    /\ writers[w].pc = "commit"
    /\ ~writers[w].fast
    /\ writers[w].sum \in DOMAIN dataFiles
    /\ ObjectsNamed(db, writers[w].sum) = {}

\* C30: in a step that deletes objects, every object that stays loses one
\* reference for each object_deps row from a deleted parent to it, a repeated
\* row counting each time, and the rows that go are those of the deleted
\* parents and no others.
C30_DeleteDecrementsPerEdge ==
  [][LET deleted == {o.id : o \in db.objects} \ {o.id : o \in db'.objects}
     IN deleted # {} =>
          /\ \A o \in db.objects :
               o.id \notin deleted =>
                 \E o2 \in db'.objects :
                   /\ o2.id = o.id
                   /\ o2.ref_count = o.ref_count
                        - Cardinality({e \in db.object_deps :
                                         e.parent_id \in deleted /\ e.child_id = o.id})
          /\ db'.object_deps = {e \in db.object_deps : e.parent_id \notin deleted}
    ]_vars

\* A parent that named a child twice has been deleted and the child, counted
\* twice before, is at 0.
C30_Witness ==
  \E t \in db.temp_objects :
    /\ Len(t.name[2]) = 2
    /\ t.name[2][1] = t.name[2][2]
    /\ ObjectsNamed(db, t.name) = {}
    /\ \E o \in db.objects : o.name = t.name[2][1] /\ o.ref_count = 0

\* An objects row without its lease
RowIdentity(o) == [id |-> o.id, name |-> o.name, ref_count |-> o.ref_count]

\* C31: the COMMIT of a Close that found an objects row of its name leaves the
\* data files, the object_deps rows, the labels and every objects row's id,
\* name and ref_count as they were; of the leases only that of the named
\* object changes, to a later time; the one temp_objects row that goes is the
\* Writer's own.
C31_FastPathFrame ==
  [][\A w \in Writers :
       (writers[w].pc = "commit" /\ writers[w].fast /\ writers'[w].pc = "done") =>
         /\ dataFiles' = dataFiles
         /\ db'.object_deps = db.object_deps
         /\ db'.labels = db.labels
         /\ {RowIdentity(o) : o \in db'.objects} = {RowIdentity(o) : o \in db.objects}
         /\ \A o \in db.objects : \A o2 \in db'.objects :
              o2.id = o.id =>
                IF o.name = writers[w].sum THEN o2.lease_time > o.lease_time
                ELSE o2.lease_time = o.lease_time
         /\ db'.temp_objects = {t \in db.temp_objects : t.id # writers[w].tempObjectId}
    ]_vars

\* Two Writers have returned the same name and the lease of its object is
\* later than a new object's: the second Close extended it.
C31_Witness ==
  \E w1 \in Writers, w2 \in Writers :
    /\ w1 # w2
    /\ writers[w1].pc = "done" /\ writers[w2].pc = "done"
    /\ writers[w1].name = writers[w2].name
    /\ \E o \in db.objects :
         /\ o.name = writers[w1].name
         /\ o.lease_time > calculateLeaseTime(defaultObjectLease)
         /\ o.ref_count = 1

\* The temp file of a Writer that has returned from Close with its name
TempFileOfDone(w) == writers[w].pc = "done" /\ tempFiles[w] # NoBytes

\* C32: after a Close that found an objects row of its name, the Writer's temp
\* file is gone from temp/ and its temp_objects row is gone.  A Close that
\* inserted the object renamed its temp file away, so a temp file left by a
\* Writer that returned its name is that of such a Close.
C32_FastPathDropsTemp ==
  \A w \in Writers : ~TempFileOfDone(w)

\* Header c of the archive adds a child to the directory named by header i
AddsChildUnder(c, i) ==
  /\ archive[c].Name # <<>>
  /\ validatePathName(Base(archive[c].Name))
  /\ Dir(archive[c].Name) = archive[i].Name

\* C33: when a completed import met a directory header for a path a second
\* time, the children added under the path between the two headers are among
\* the children the directory object of the path is built from.
C33_RepeatedDirKeepsChildren ==
  imported.err = "" =>
    \A i \in 1 .. Len(archive), j \in 1 .. Len(archive), c \in 1 .. Len(archive) :
      (/\ i < c /\ c < j
       /\ archive[i].Typeflag = "dir" /\ archive[j].Typeflag = "dir"
       /\ archive[i].Name = archive[j].Name
       /\ AddsChildUnder(c, i)
       /\ archive[i].Name \in DOMAIN imported.dirEntries)
        => Base(archive[c].Name)
             \in DOMAIN imported.entries[imported.dirEntries[archive[i].Name]].children

\* Path q lies beneath path p
Beneath(q, p) == Len(q) > Len(p) /\ SubSeq(q, 1, Len(p)) = p

\* The name of the directory object built from the children of entry e as
\* the import left them
RebuiltName(e) ==
  LET children == imported.entries[e].children
      all == tarInsertAll(imported, children, CreateDirBuilder, Listing(DOMAIN children))
      built == Build(all.builder, CHOOSE s \in SortOrders(all.builder.DirEntries) : TRUE)
  IN ObjectName(built.dataOut, all.builder.DepNames)

\* C34: the import comes to a directory's object only after the objects of
\* all directories beneath it, and after a completed import every directory
\* object is the one built from its children's final inodes (object names
\* included) and subtree sizes.
C34_DirectoriesBuiltBottomUp ==
  /\ \A k \in 1 .. Len(imported.order) :
       \A q \in DOMAIN imported.dirEntries :
         Beneath(q, imported.order[k])
           => \E j \in 1 .. (k - 1) : imported.order[j] = q
  /\ imported.err = "" =>
       \A p \in DOMAIN imported.dirEntries :
         imported.entries[imported.dirEntries[p]].inode.ObjName
           = RebuiltName(imported.dirEntries[p])

\* A completed import of a directory inside a directory: three objects built,
\* the root's last.
C34_Witness ==
  /\ imported.err = ""
  /\ Len(imported.order) = 3
  /\ imported.order[3] = <<>>
  /\ \E p \in DOMAIN imported.dirEntries : \E q \in DOMAIN imported.dirEntries :
       /\ p # <<>>
       /\ Beneath(q, p)
       /\ imported.entries[imported.dirEntries[p]].treeSize = U64(2)

\* The request kinds a reply is expected for: every kind with a handler but
\* the two forgets, which the protocol does not answer
ExpectReply == Supported \ {"Forget", "BatchForget"}

\* C35: every request that expects a reply is given exactly one by the time
\* its handler has returned, a successful Release included
C35_EveryRequestAnswered ==
  answers.kind \in ExpectReply => answers.replies = 1

\* C36: every file opened while serving a request is owned by an open handle
\* (or by the handle an Open in flight is about to register) or has been
\* closed, so the open files are as many as the handles, however many
\* Lookups have been served
C36_DescriptorsAreHandles ==
  openFiles = Cardinality(DOMAIN handleMap) + Cardinality(DOMAIN opening)

\* The ids Open has returned
Issued == {issued[i] : i \in 1 .. Len(issued)}

\* C38: the handle ids Open returns strictly increase in the order of
\* allocation, every open handle has an id Open returned, and an id that was
\* released names no handle in any later step
C38_HandleIdsNeverReused ==
  [][/\ \A i \in 1 .. Len(issued') : \A j \in 1 .. Len(issued') :
          i < j => issued'[i] < issued'[j]
     /\ DOMAIN handleMap' \subseteq Issued'
     /\ \A h \in Issued \ DOMAIN handleMap : h \notin DOMAIN handleMap']_vars

\* A Release has just been served while an Open was between making its handle
\* and registering it: the first id is released, the second names a handle
C38_Witness ==
  /\ Len(issued) = 2
  /\ issued[1] \notin DOMAIN handleMap
  /\ issued[2] \in DOMAIN handleMap
  /\ DOMAIN opening # {}
  /\ answers.kind = "Release"

\* C37: whenever GarbageCollect is not running, also after a phase failed
\* part-way, the handle has no write transaction of the collector open and no
\* temporary work table left
C37_FailedPhaseLeavesNothing ==
  gc.pc = "idle" => tx.owner # <<"gc", 0>> /\ db.temp_tables = {}

\* C39: on the blob Build made, for every name asked for, the search window of
\* LookupChild is inside the one before it and smaller at each step, and the
\* walks upwards and downwards over the index read positions of [0, N) only
C39_LookupStaysInsideIndex ==
  Looked =>
    LET N == Uint32(blob, 4)
        w == SearchWindows(blob, ChecksumIEEE(found.name), U32(0), N,
                           <<0, 0>>, <<Limb - 1, Limb - 1>>)
        reads == LookupChildReads(blob, found.name)
    IN /\ \A i \in 1 .. Len(w) - 1 :
            /\ ~ULess(w[i + 1].lo, w[i].lo)
            /\ ~ULess(w[i].hi, w[i + 1].hi)
            /\ ~ULess(w[i + 1].hi, w[i + 1].lo)
            /\ ToInt(USub(w[i + 1].hi, w[i + 1].lo)) < ToInt(USub(w[i].hi, w[i].lo))
       /\ \A i \in 1 .. Len(reads) : ULess(reads[i], N)

\* How often name n is in the list of dependencies
DepCount(deps, n) == Cardinality({i \in 1 .. Len(deps) : deps[i] = n})

SameDeps(a, b) == \A n \in HashNames : DepCount(a, n) = DepCount(b, n)

\* C40: the bytes hashed for a blob, and so its name, are those of every
\* other order of the same dependencies with the same content, and differ from
\* the bytes hashed for any other content or any other multiset of dependencies
C40_NameIgnoresDepOrder ==
  hashing # NoHashing =>
    \A deps \in HashDeps : \A buffer \in HashContents :
      /\ (HashedInput(buffer, deps) = hashing.input)
            <=> (buffer = hashing.buffer /\ SameDeps(deps, hashing.deps))
      /\ (buffer = hashing.buffer /\ SameDeps(deps, hashing.deps))
            => ObjectName(buffer, deps) = hashing.name

\* A blob was named whose dependencies were passed out of byte order, one of
\* them twice, with content that begins like a name
C40_Witness ==
  /\ Len(hashing.deps) = MaxDeps
  /\ hashing.deps # SortNames(hashing.deps)
  /\ \E n \in HashNames : DepCount(hashing.deps, n) = 2
  /\ Len(hashing.buffer) > NameSize
====
